---- MODULE Spec2Model ----
(***************************************************************************)
(* A (Process, ProcessController) pair of ptaas_rs, project_managers/      *)
(* process_2.rs: the shared Status cell, the two one-shot channels of the  *)
(* cancellation rendezvous, the OS child, and the steps of Process::run    *)
(* and ProcessController::cancel between their suspension points.          *)
(***************************************************************************)
EXTENDS Integers, Sequences, FiniteSets, TLC

\* How many times the owner of the Process calls run.
MaxRunCalls == 2
\* How many times the owner of the ProcessController calls cancel.
MaxCancelCalls == 2

VARIABLES
    platform,                  \* cfg!(target_os): fixed by the build
    program,                   \* whether OsProcessArgs.program names an existing program
    status,                    \* StatusHolder.status, shared by both handles
    child,                     \* Process.child is Some
    child_killed_successfuly,  \* Process.child_killed_successfuly
    controller_dropped,        \* Process.controller_dropped
    cancel_status_channel_sender,   \* where the response Sender is
    cancel_channel_receiver,        \* where the request Receiver is
    cancel_channel_sender,          \* where the request Sender is
    cancel_status_channel_receiver, \* where the response Receiver is
    reqMsg,                    \* the request channel's slot
    respMsg,                   \* the response channel's slot
    osChild,                   \* the OS child: none, alive, exited, reaped
    exitStatus,                \* the ExitStatus the OS reports for the child
    proc_pc,                   \* position of the Process's owner inside run
    path,                      \* which select! branch run took
    ctl_pc,                    \* position of the controller's owner inside cancel
    runResults,                \* what each call of run returned, in call order
    cancelResults,             \* what each call of cancel returned, in call order
    lastRead,                  \* what the last ProcessController::status returned
                               \* (Created, the least Status, before any read)
    kills,                     \* kills that run issued to the child
    dropTask,                  \* the background task scheduled by Process::drop
    ctlDroppedAt,              \* the Status tag when the controller was dropped
    uploaded,                  \* the tree at LocalProjectInstaller.uploaded_project_dir
    checkResults,              \* what each call of check returned, with the I/O fault it met
    path_to_str_ok,            \* the installer's paths are valid UTF-8 (Path::to_str is Some)
    project_env_dir,           \* the directory LocalProjectInstaller.project_env_dir exists
    ioFiles,                   \* how many of the four output files have been created
    processes,                 \* venv_process and req_process, each with its controller,
                               \* its two channels and its OS child
    inst_pc,                   \* position of the installer's owner inside install
    pending,                   \* the ErrorThatTriggersCleanUp that clean-up was started with
    attempts,                  \* removal attempts made by the clean-up so far
    installResults,            \* what each call of install / check_and_install returned
    ictl_pc,                   \* position of the installer controller's owner inside cancel
    icancelResults,            \* what each LocalProjectInstallerController::cancel returned
    stdout_sender,             \* where OsProcessArgs.stdout_sender, the Sender of the sink, is
    emitted,                   \* the lines the child has written to its stdout, in order
    lines_read,                \* how many of them the forwarder's BufReader has yielded
    fwd_pc,                    \* position of the task spawned by forward_io
    fwd_line,                  \* the line that task is sending
    channel,                   \* the buffer of the sink, a bounded mpsc channel
    stdout_receiver,           \* the Receiver of the sink: open or closed
    received,                  \* the lines the Receiver has yielded, in order
    relay_pc,                  \* position of the task of do_forward_io_and_write_to_file
    relay_line,                \* the line that task is writing and forwarding
    stdout_file,               \* the lines that are in the stream's file
    last_write_err,            \* a write to the file has failed and was not reported yet
    sender_to_forward_to,      \* the caller's relay sink, if supplied
    relay_receiver,            \* the Receiver of the relay sink: open or closed
    relayed,                   \* the lines the relay sink has accepted, in order
    max_attempts,              \* remove_dir_all_with_max_attempts_and_delay: its argument
    errors,                    \* its Vec of the IoErrors met so far
    rm_i,                      \* how many turns of its for loop have begun
    rm_pc,                     \* the position of its caller inside it
    removals,                  \* what each fs::remove_dir_all returned, in order
    rm_result,                 \* what the function returned
    phase_at,                  \* the phase whose run install awaits, with the shared sink
    produced,                  \* per phase, how many lines its child has written to stdout
    pipes,                     \* per phase, the lines in the child's pipe
    channels,                  \* per phase, the buffer of the phase's mpsc channel
    relay_tasks,               \* per phase, the position of its relay task and its line
    relay_sink                 \* the (phase, line) pairs the caller's stdout sink accepted

vars == <<platform, program, status, child, child_killed_successfuly, controller_dropped,
          cancel_status_channel_sender, cancel_channel_receiver,
          cancel_channel_sender, cancel_status_channel_receiver,
          reqMsg, respMsg, osChild, exitStatus, proc_pc, path, ctl_pc,
          runResults, cancelResults, lastRead, kills, dropTask, ctlDroppedAt,
          uploaded, checkResults, path_to_str_ok, project_env_dir, ioFiles, processes,
          inst_pc, pending, attempts, installResults,
          ictl_pc, icancelResults,
          stdout_sender, emitted, lines_read, fwd_pc, fwd_line, channel, stdout_receiver,
          received, relay_pc, relay_line, stdout_file, last_write_err,
          sender_to_forward_to, relay_receiver, relayed,
          max_attempts, errors, rm_i, rm_pc, removals, rm_result,
          phase_at, produced, pipes, channels, relay_tasks, relay_sink>>

\* One call of remove_dir_all_with_max_attempts_and_delay taken by itself.
removal == <<max_attempts, errors, rm_i, rm_pc, removals, rm_result>>
\* The stdout streams of the two phases into the caller's one relay sink.
shared == <<phase_at, produced, pipes, channels, relay_tasks, relay_sink>>
\* What is modelled apart from the Process, the installer and the one stream.
apart == <<removal, shared>>
env == <<platform, program>>
\* The state of a LocalProjectInstaller and of the directories it works on.
inst == <<uploaded, checkResults, path_to_str_ok, project_env_dir, ioFiles, processes,
          inst_pc, pending, attempts, installResults,
          ictl_pc, icancelResults>>
procVars == <<child, child_killed_successfuly, controller_dropped>>
procChans == <<cancel_status_channel_sender, cancel_channel_receiver>>
ctlChans == <<cancel_channel_sender, cancel_status_channel_receiver>>
osVars == <<osChild, exitStatus>>
ctlSide == <<ctl_pc, cancelResults, lastRead, ctlDroppedAt>>
\* The single Process and ProcessController of Spec, which an installer does not use.
single == <<status, procVars, procChans, ctlChans, reqMsg, respMsg, osVars, proc_pc, path,
            runResults, kills, dropTask, ctlSide>>
\* What the installer's owner holds between its steps.
instCall == <<inst_pc, pending, attempts, installResults>>
\* The directories and what check made of them.
dirs == <<uploaded, checkResults, path_to_str_ok>>
\* The forwarder task of one stream of the Process.
fwd == <<stdout_sender, lines_read, fwd_pc, fwd_line>>
\* The relay task of that stream, its file and the caller's relay sink.
relay == <<received, relay_pc, relay_line, stdout_file, last_write_err,
           sender_to_forward_to, relay_receiver, relayed>>
\* One output stream from the child's pipe to the relay sink.
stream == <<fwd, emitted, channel, stdout_receiver, relay>>

----------------------------------------------------------------------------
(* Status and its sub-enums, as records of one shape.                      *)

Created == [tag |-> "Created", term |-> "-", sub |-> "-", code |-> 0]
Running == [tag |-> "Running", term |-> "-", sub |-> "-", code |-> 0]
Terminated(ts) == [tag |-> "Terminated", term |-> ts.term, sub |-> ts.sub, code |-> ts.code]

TerminatedSuccessfully == [term |-> "TerminatedSuccessfully", sub |-> "-", code |-> 0]
Killed(k) == [term |-> "Killed", sub |-> k, code |-> 0]
TerminatedWithErrorCode(c) ==
    [term |-> "TerminatedWithError", sub |-> "TerminatedWithErrorCode", code |-> c]
TerminatedWithUnknownErrorCode ==
    [term |-> "TerminatedWithError", sub |-> "TerminatedWithUnknownErrorCode", code |-> 0]

KilledTerminationStatus(dropped) ==
    IF dropped THEN "KilledByDroppingController" ELSE "KilledByCancellationSignal"

\* tokio::process builds for unix and for windows only: a target that is
\* neither linux nor windows is another unix (macos, freebsd, ...).
Platforms == {"linux", "windows", "other"}

(* std::process::ExitStatus: code() is Some(code) or None (death by signal). *)
ExitCode(c) == [coded |-> TRUE, code |-> c]
ExitSignal == [coded |-> FALSE, code |-> 0]
NoExit == [coded |-> FALSE, code |-> -1]
ExitSuccess(es) == es.coded /\ es.code = 0

\* The exit statuses a child reaches by itself; Windows has no signal death.
OwnExits(plat) ==
    {ExitCode(0), ExitCode(1), ExitCode(2)} \cup
    (IF plat = "windows" THEN {} ELSE {ExitSignal})

\* The exit status of a child ended by Child::kill (TerminateProcess(.., 1) / SIGKILL).
KilledExit(plat) == IF plat = "windows" THEN ExitCode(1) ELSE ExitSignal

----------------------------------------------------------------------------
(* Results of run and cancel.                                               *)

RunOk(s) == [res |-> "Ok", status |-> s, io |-> "-"]
RunErr(e) == [res |-> e, status |-> Created, io |-> "-"]
RunAbandoned == [res |-> "Abandoned", status |-> Created, io |-> "-"]
\* ProcessRunError::CouldNotSpawnOsProcess(io): io is the kind of the IoError.
RunSpawnErr(io) == [res |-> "CouldNotSpawnOsProcess", status |-> Created, io |-> io]

\* What Command::spawn returns: "spawned", or the kind of its IoError. An
\* absent program gives NotFound; so does an absent current_dir.
SpawnOutcomes(prog) ==
    IF prog = "absent" THEN {"NotFound"}
    ELSE {"spawned", "NotFound", "PermissionDenied"}

\* pre: the call passed the status pre-check; payload: the Option of an Ok.
CancelOk(payload) == [res |-> "Ok", payload |-> payload, pre |-> TRUE]
CancelErr(e, pre) == [res |-> e, payload |-> "-", pre |-> pre]
CancelAbandoned == [res |-> "Abandoned", payload |-> "-", pre |-> TRUE]

----------------------------------------------------------------------------
(* The uploaded project directory, as LocalProjectInstaller::check reads it. *)

\* How many entries a listed directory has at most.
MaxEntries == 3

\* entry.path().extension().and_then(|ext| ext.to_str()) of a directory
\* entry: Some("py"), Some of another extension, or None.
Extensions == {"py", "txt", "-"}

\* The entries of a directory in the order fs::read_dir yields them.
Listings == UNION {[1..n -> Extensions] : n \in 0..MaxEntries}

\* A directory that does not exist.
NoDir == [exists |-> FALSE, entries |-> <<>>]
Dir(entries) == [exists |-> TRUE, entries |-> entries]

\* uploaded_project_dir: whether it exists, what requirements.txt holds
\* ("missing", "locust": its text contains "locust", "other": it does not),
\* the directory locust/, and whether there is any further entry.
Upload(exists, requirements, locust, others) ==
    [exists |-> exists, requirements |-> requirements, locust |-> locust, others |-> others]

NoUpload == Upload(FALSE, "missing", NoDir, FALSE)

UploadedDirs ==
    {NoUpload} \cup
    {Upload(TRUE, r, l, o) :
        r \in {"missing", "locust", "other"},
        l \in {NoDir} \cup {Dir(e) : e \in Listings},
        o \in BOOLEAN}

\* uploaded_project_dir as a directory: only its emptiness is looked at.
ProjectDir(up) ==
    IF ~up.exists THEN NoDir
    ELSE Dir((IF up.requirements # "missing" THEN <<"txt">> ELSE <<>>) \o
             (IF up.locust.exists THEN <<"-">> ELSE <<>>) \o
             (IF up.others THEN <<"-">> ELSE <<>>))

\* The fs call of check that fails with an IoError, if any: the directory or
\* file it is made on, the call, and for the calls of the loop over locust/
\* which one of them (1 is the first call of the loop).
Fault(on, call, n) == [on |-> on, call |-> call, n |-> n]
NoFault == Fault("-", "none", 0)
FsFaults ==
    {NoFault} \cup
    {Fault(d, c, 0) : d \in {"project", "locust"}, c \in {"try_exists", "read_dir", "next_entry"}} \cup
    {Fault("requirements", c, 0) : c \in {"try_exists", "read_to_string"}} \cup
    {Fault("locust", "iterate", n) : n \in 1..MaxEntries}

\* The fault as the calls made on `on` see it.
FaultOn(fault, on) == IF fault.on = on THEN fault.call ELSE "none"

CheckOk == [res |-> "Ok", err |-> "-"]
CheckErr(category, e) == [res |-> category, err |-> e]

----------------------------------------------------------------------------
(* The two Processes of a LocalProjectInstaller.                            *)

\* venv_process with venv_controller, req_process with req_controller.
Phases == {"venv", "req"}

\* A (Process, ProcessController) pair as Process::new returns it, with its
\* channels and its OS child: the fields are the variables of the same name
\* of the single pair above; pc is the position inside run and results what
\* the calls of run returned.
PairNew ==
    [status |-> Created, child |-> FALSE, child_killed_successfuly |-> FALSE,
     controller_dropped |-> FALSE,
     cancel_status_channel_sender |-> "process", cancel_channel_receiver |-> "process",
     cancel_channel_sender |-> "controller", cancel_status_channel_receiver |-> "controller",
     reqMsg |-> "empty", respMsg |-> "empty",
     osChild |-> "none", exitStatus |-> NoExit,
     pc |-> "idle", path |-> "none", kills |-> 0, results |-> <<>>]

\* ErrorThatTriggersCleanUp::{VenvInstallError, RequirementsInstallError}(sub),
\* sub being SubInstallError::{Killed, TerminatedWithError, UnexpectedStatus,
\* RunError}; `of` is the result of run that sub was made from.
TriggersCleanUp(variant, sub, of) == [variant |-> variant, sub |-> sub, of |-> of]
NoError == TriggersCleanUp("-", "-", RunAbandoned)

\* The result of check_and_install: res is "Ok" or the variant of
\* InstallError / CheckAndInstallError::CheckError; error the
\* ErrorThatTriggersCleanUp it carries; cleanup the CleanUpError it carries;
\* check the ProjectCheckError it carries; cleaned whether clean-up was run;
\* env whether project_env_dir exists at the return.
InstallResult(res, error, cleanup, checked, cleaned, env_after) ==
    [res |-> res, error |-> error, cleanup |-> cleanup, check |-> checked,
     cleaned |-> cleaned, env |-> env_after]

\* The result of LocalProjectInstallerController::cancel: res is "Ok" or the
\* variant of SendingCancellationSignalToInstallerError; payload is the
\* Option of an Ok ("None" or the ProcessKillAndWaitError), tagged by `of`
\* with the controller it came from; err the
\* SendingCancellationSignalToProcessError of an Err.
InstallerCancelResult(res, of, payload, err) ==
    [res |-> res, of |-> of, payload |-> payload, err |-> err]

----------------------------------------------------------------------------
\* Process::new, lines 198-224.
ProcessNew ==
    /\ status = Created
    /\ child = FALSE
    /\ child_killed_successfuly = FALSE
    /\ controller_dropped = FALSE
    /\ cancel_status_channel_sender = "process"
    /\ cancel_channel_receiver = "process"
    /\ cancel_channel_sender = "controller"
    /\ cancel_status_channel_receiver = "controller"
    /\ reqMsg = "empty"
    /\ respMsg = "empty"
    /\ osChild = "none"
    /\ exitStatus = NoExit
    /\ proc_pc = "idle"
    /\ path = "none"
    /\ ctl_pc = "idle"
    /\ runResults = <<>>
    /\ cancelResults = <<>>
    /\ lastRead = Created
    /\ kills = 0
    /\ dropTask = "none"
    /\ ctlDroppedAt = "-"

\* LocalProjectInstaller::new, lines 128-160, before any call.
InstallerNew ==
    /\ checkResults = <<>>
    /\ ioFiles = 0
    /\ processes = [p \in Phases |-> PairNew]
    /\ inst_pc = "idle"
    /\ pending = NoError
    /\ attempts = 0
    /\ installResults = <<>>
    /\ ictl_pc = "idle"
    /\ icancelResults = <<>>

\* No LocalProjectInstaller is in use.
NoInstaller ==
    /\ uploaded = NoUpload
    /\ path_to_str_ok = TRUE
    /\ project_env_dir = FALSE
    /\ InstallerNew

\* A line of output: n tells the lines of one stream apart, utf8 is whether
\* its bytes are valid UTF-8, nl whether it carries its line terminator.
Line(n, utf8, nl) == [n |-> n, utf8 |-> utf8, nl |-> nl]
NoLine == Line(0, TRUE, FALSE)

\* No sink was supplied (Stdio::null, lines 337-338) and no relay task runs.
NoStreams ==
    /\ stdout_sender = "none"
    /\ emitted = <<>>
    /\ lines_read = 0
    /\ fwd_pc = "none"
    /\ fwd_line = NoLine
    /\ channel = <<>>
    /\ stdout_receiver = "closed"
    /\ received = <<>>
    /\ relay_pc = "none"
    /\ relay_line = NoLine
    /\ stdout_file = <<>>
    /\ last_write_err = FALSE
    /\ sender_to_forward_to = "none"
    /\ relay_receiver = "closed"
    /\ relayed = <<>>

\* No call of remove_dir_all_with_max_attempts_and_delay is followed.
NoRemoval ==
    /\ max_attempts = 0
    /\ errors = <<>>
    /\ rm_i = 0
    /\ rm_pc = "none"
    /\ removals = <<>>
    /\ rm_result = [res |-> "-", errors |-> <<>>]

\* No installation with a relay sink is followed.
NoSharedSink ==
    /\ phase_at = "none"
    /\ produced = [p \in Phases |-> 0]
    /\ pipes = [p \in Phases |-> <<>>]
    /\ channels = [p \in Phases |-> <<>>]
    /\ relay_tasks = [p \in Phases |-> [pc |-> "none", line |-> NoLine]]
    /\ relay_sink = <<>>

Init ==
    /\ platform \in Platforms
    /\ program \in {"present", "absent"}
    /\ ProcessNew
    /\ NoInstaller
    /\ NoStreams
    /\ NoRemoval
    /\ NoSharedSink

----------------------------------------------------------------------------
(* Process::get_termination_status_on_exit_status                          *)

\* The classification with the killed-by-library bit not consulted.
get_termination_status_IgnoresKilledBit(es, killed, dropped, plat) ==
    IF ExitSuccess(es) THEN TerminatedSuccessfully
    ELSE IF es.coded
         THEN IF es.code = 1 /\ plat = "windows"
              THEN Killed(KilledTerminationStatus(dropped))
              ELSE TerminatedWithErrorCode(es.code)
         ELSE IF plat = "linux"
              THEN Killed(KilledTerminationStatus(dropped))
              ELSE TerminatedWithUnknownErrorCode

\* The classification with controller_dropped not consulted.
get_termination_status_IgnoresControllerDropped(es, killed, dropped, plat) ==
    IF ExitSuccess(es) THEN TerminatedSuccessfully
    ELSE IF es.coded
         THEN IF es.code = 1 /\ plat = "windows" /\ killed
              THEN Killed(KilledTerminationStatus(FALSE))
              ELSE TerminatedWithErrorCode(es.code)
         ELSE IF plat = "linux" /\ killed
              THEN Killed(KilledTerminationStatus(FALSE))
              ELSE TerminatedWithUnknownErrorCode

get_termination_status_on_exit_status(es, killed, dropped, plat) ==
    IF ExitSuccess(es) THEN TerminatedSuccessfully
    ELSE IF es.coded
         THEN IF es.code = 1 /\ plat = "windows" /\ killed
              THEN Killed(KilledTerminationStatus(dropped))
              ELSE TerminatedWithErrorCode(es.code)
         ELSE IF plat = "linux" /\ killed
              THEN Killed(KilledTerminationStatus(dropped))
              ELSE TerminatedWithUnknownErrorCode

----------------------------------------------------------------------------
(* Helpers for the ends of the one-shot channels.                          *)

\* The end stays where it is unless one of `holders` holds it and lets it go.
DropIfHeld(end, holders) == IF end \in holders THEN "dropped" ELSE end

\* The OS child after a kill reached it: a live child dies of the kill, a
\* child that had already ended keeps its own exit status.
KilledOs(os) == IF os = "alive" THEN "exited" ELSE os
KilledOsExit(os, es, plat) == IF os = "alive" THEN KilledExit(plat) ELSE es

\* run returns `result`: the request Receiver, if run still held it, is gone.
RunReturns(result) ==
    /\ runResults' = Append(runResults, result)
    /\ proc_pc' = "idle"
    /\ cancel_channel_receiver' = DropIfHeld(cancel_channel_receiver, {"run"})

----------------------------------------------------------------------------
(* Process::run up to the select!                                          *)

\* OsProcessArgs.stdout_sender at the start of run, lines 329-359: moved into
\* the task that forward_io spawns once the child is spawned (lines 352-359,
\* 490), dropped with the arguments when run returns before that.
forward_ios_to_channels ==
    /\ stdout_sender' = IF stdout_sender # "args" THEN stdout_sender
                        ELSE IF proc_pc' = "spawned" THEN "forwarder"
                        ELSE "dropped"
    /\ fwd_pc' = IF stdout_sender = "args" /\ proc_pc' = "spawned" THEN "next_line"
                 ELSE fwd_pc
    /\ UNCHANGED <<lines_read, fwd_line, emitted, channel, stdout_receiver, relay>>

\* Run_Start with the two ends taken only once the child was spawned.
Run_Start_TakesAfterSpawn ==
    /\ proc_pc = "idle"
    /\ Len(runResults) < MaxRunCalls
    /\ \E io \in SpawnOutcomes(program) :
         IF io # "spawned"
         THEN /\ runResults' = Append(runResults, RunSpawnErr(io))
              /\ proc_pc' = "idle"
              /\ UNCHANGED <<procChans, osVars>>
         ELSE IF cancel_status_channel_sender # "process" \/ cancel_channel_receiver # "process"
         THEN /\ RunReturns(RunErr("AlreayTriedToRun"))
              /\ osChild' = "exited"
              /\ exitStatus' = KilledExit(platform)
              /\ UNCHANGED cancel_status_channel_sender
         ELSE /\ proc_pc' = "spawned"
              /\ cancel_status_channel_sender' = "run"
              /\ cancel_channel_receiver' = "run"
              /\ osChild' = "alive"
              /\ UNCHANGED <<exitStatus, runResults>>
    /\ forward_ios_to_channels
    /\ UNCHANGED <<env, apart, inst, status, procVars, ctlChans, reqMsg, respMsg, path,
                   kills, dropTask, ctlSide>>

\* Run_Start with a spawn failure recorded in the Status cell.
Run_Start_MarksSpawnFailure ==
    /\ proc_pc = "idle"
    /\ Len(runResults) < MaxRunCalls
    /\ IF cancel_status_channel_sender # "process" \/ cancel_channel_receiver # "process"
       THEN /\ RunReturns(RunErr("AlreayTriedToRun"))
            /\ UNCHANGED <<cancel_status_channel_sender, osVars, status>>
       ELSE \E io \in SpawnOutcomes(program) :
              IF io = "spawned"
              THEN /\ proc_pc' = "spawned"
                   /\ cancel_status_channel_sender' = "run"
                   /\ cancel_channel_receiver' = "run"
                   /\ osChild' = "alive"
                   /\ UNCHANGED <<exitStatus, runResults, status>>
              ELSE /\ runResults' = Append(runResults, RunSpawnErr(io))
                   /\ proc_pc' = "idle"
                   /\ status' = Terminated(TerminatedWithUnknownErrorCode)
                   /\ cancel_status_channel_sender' = "dropped"
                   /\ cancel_channel_receiver' = "dropped"
                   /\ UNCHANGED osVars
    /\ forward_ios_to_channels
    /\ UNCHANGED <<env, apart, inst, procVars, ctlChans, reqMsg, respMsg, path,
                   kills, dropTask, ctlSide>>

\* Run_Start with the Status overwritten before Command::spawn is tried.
Run_Start_RunningBeforeSpawn ==
    /\ proc_pc = "idle"
    /\ Len(runResults) < MaxRunCalls
    /\ IF cancel_status_channel_sender # "process"
       THEN /\ RunReturns(RunErr("AlreayTriedToRun"))
            /\ UNCHANGED <<cancel_status_channel_sender, osVars, status>>
       ELSE IF cancel_channel_receiver # "process"
       THEN /\ RunReturns(RunErr("AlreayTriedToRun"))
            /\ cancel_status_channel_sender' = "dropped"
            /\ UNCHANGED <<osVars, status>>
       ELSE /\ status' = Running
            /\ \E io \in SpawnOutcomes(program) :
                 IF io = "spawned"
                 THEN /\ proc_pc' = "spawned"
                      /\ cancel_status_channel_sender' = "run"
                      /\ cancel_channel_receiver' = "run"
                      /\ osChild' = "alive"
                      /\ UNCHANGED <<exitStatus, runResults>>
                 ELSE /\ runResults' = Append(runResults, RunSpawnErr(io))
                      /\ proc_pc' = "idle"
                      /\ cancel_status_channel_sender' = "dropped"
                      /\ cancel_channel_receiver' = "dropped"
                      /\ UNCHANGED osVars
    /\ forward_ios_to_channels
    /\ UNCHANGED <<env, apart, inst, procVars, ctlChans, reqMsg, respMsg, path,
                   kills, dropTask, ctlSide>>

\* run, lines 242-254, and Command::spawn, lines 340-347: both ends are taken
\* out of the Process; without them the call fails; then the child is spawned.
Run_Start ==
    /\ proc_pc = "idle"
    /\ Len(runResults) < MaxRunCalls
    /\ IF cancel_status_channel_sender # "process"
       THEN /\ RunReturns(RunErr("AlreayTriedToRun"))
            /\ UNCHANGED <<cancel_status_channel_sender, osVars>>
       ELSE IF cancel_channel_receiver # "process"
       THEN /\ RunReturns(RunErr("AlreayTriedToRun"))
            /\ cancel_status_channel_sender' = "dropped"
            /\ UNCHANGED osVars
       ELSE \E io \in SpawnOutcomes(program) :
              IF io = "spawned"
              THEN /\ proc_pc' = "spawned"
                   /\ cancel_status_channel_sender' = "run"
                   /\ cancel_channel_receiver' = "run"
                   /\ osChild' = "alive"
                   /\ UNCHANGED <<exitStatus, runResults>>
              ELSE /\ runResults' = Append(runResults, RunSpawnErr(io))
                   /\ proc_pc' = "idle"
                   /\ cancel_status_channel_sender' = "dropped"
                   /\ cancel_channel_receiver' = "dropped"
                   /\ UNCHANGED osVars
    /\ forward_ios_to_channels
    /\ UNCHANGED <<env, apart, inst, status, procVars, ctlChans, reqMsg, respMsg, path,
                   kills, dropTask, ctlSide>>

\* spawn_os_process_and_forward_ios_to_channels, lines 361-365.
Run_SetRunning ==
    /\ proc_pc = "spawned"
    /\ status' = Running
    /\ child' = TRUE
    /\ proc_pc' = "select"
    /\ UNCHANGED <<env, apart, inst, stream, child_killed_successfuly, controller_dropped, procChans,
                   ctlChans, reqMsg, respMsg, osVars, path, runResults, kills,
                   dropTask, ctlSide>>

----------------------------------------------------------------------------
(* Process::wait_for_signal_or_termination: the select!                    *)

\* select! branch 1 with result Ok: the cancel request has arrived.
Select_CancelReceived ==
    /\ proc_pc = "select"
    /\ reqMsg = "full"
    /\ reqMsg' = "received"
    /\ cancel_channel_receiver' = "dropped"
    /\ path' = "cancel"
    /\ proc_pc' = "try_wait"
    /\ UNCHANGED <<env, apart, inst, stream, status, procVars, cancel_status_channel_sender, ctlChans,
                   respMsg, osVars, runResults, kills, dropTask, ctlSide>>

\* Select_ControllerDropped with controller_dropped left unset.
Select_ControllerDropped_NoFlag ==
    /\ proc_pc = "select"
    /\ reqMsg = "empty"
    /\ cancel_channel_sender = "dropped"
    /\ cancel_channel_receiver' = "dropped"
    /\ path' = "drop"
    /\ proc_pc' = "try_wait"
    /\ UNCHANGED <<env, apart, inst, stream, status, procVars, cancel_status_channel_sender, ctlChans,
                   reqMsg, respMsg, osVars, runResults, kills, dropTask, ctlSide>>

\* select! branch 1 with result Err: the request Sender was dropped unused.
Select_ControllerDropped ==
    /\ proc_pc = "select"
    /\ reqMsg = "empty"
    /\ cancel_channel_sender = "dropped"
    /\ controller_dropped' = TRUE
    /\ cancel_channel_receiver' = "dropped"
    /\ path' = "drop"
    /\ proc_pc' = "try_wait"
    /\ UNCHANGED <<env, apart, inst, stream, status, child, child_killed_successfuly,
                   cancel_status_channel_sender, ctlChans, reqMsg, respMsg, osVars,
                   runResults, kills, dropTask, ctlSide>>

\* select! branch 2: child.wait() completed, with the exit status or an error.
Select_ChildExited ==
    /\ proc_pc = "select"
    /\ path' = "self"
    /\ \E ok \in BOOLEAN :
         IF ok
         THEN /\ osChild = "exited"
              /\ osChild' = "reaped"
              /\ cancel_channel_receiver' = "dropped"
              /\ proc_pc' = "set_status"
              /\ UNCHANGED <<cancel_status_channel_sender, runResults>>
         ELSE /\ RunReturns(RunErr("CouldNotWaitForOsProcess"))
              /\ cancel_status_channel_sender' = "dropped"
              /\ UNCHANGED osChild
    /\ UNCHANGED <<env, apart, inst, stream, status, procVars, ctlChans, reqMsg, respMsg, exitStatus,
                   kills, dropTask, ctlSide>>

----------------------------------------------------------------------------
(* Process::check_if_still_running_and_kill_and_wait, and what its caller  *)
(* in wait_for_signal_or_termination does with an error.                   *)

\* KillAndWaitFails with the error swallowed on the controller-dropped path too.
KillAndWaitFails_SwallowsError(e) ==
    /\ proc_pc' = "return"
    /\ IF path = "cancel" /\ cancel_status_channel_receiver # "dropped"
       THEN respMsg' = e /\ cancel_status_channel_sender' = "sent"
       ELSE respMsg' = respMsg /\ cancel_status_channel_sender' = "dropped"
    /\ UNCHANGED <<runResults, cancel_channel_receiver>>

\* Lines 291-292 (cancel path: the error goes to the controller and run goes
\* on to return) and line 302 (controller-dropped path: run returns the error).
KillAndWaitFails(e) ==
    IF path = "cancel"
    THEN IF cancel_status_channel_receiver = "dropped"
         THEN /\ RunReturns(RunErr("ControllerDropped"))
              /\ cancel_status_channel_sender' = "dropped"
              /\ UNCHANGED respMsg
         ELSE /\ respMsg' = e
              /\ cancel_status_channel_sender' = "sent"
              /\ proc_pc' = "return"
              /\ UNCHANGED <<runResults, cancel_channel_receiver>>
    ELSE /\ RunReturns(RunErr(e))
         /\ cancel_status_channel_sender' = "dropped"
         /\ UNCHANGED respMsg

\* KillAndWait_TryWait going on to the kill whether or not the child has exited.
KillAndWait_TryWait_KillsExited ==
    /\ proc_pc = "try_wait"
    /\ \E ok \in BOOLEAN :
         IF ~ok
         THEN /\ KillAndWaitFails("CouldNotCheckStatus")
              /\ UNCHANGED osChild
         ELSE /\ osChild' = osChild /\ proc_pc' = "kill"
              /\ UNCHANGED <<procChans, respMsg, runResults>>
    /\ UNCHANGED <<env, apart, inst, stream, status, procVars, ctlChans, reqMsg, exitStatus, path,
                   kills, dropTask, ctlSide>>

\* child.try_wait(), lines 376-382.
KillAndWait_TryWait ==
    /\ proc_pc = "try_wait"
    /\ \E ok \in BOOLEAN :
         IF ~ok
         THEN /\ KillAndWaitFails("CouldNotCheckStatus")
              /\ UNCHANGED osChild
         ELSE /\ IF osChild = "exited"
                 THEN osChild' = "reaped" /\ proc_pc' = "set_status"
                 ELSE osChild' = osChild /\ proc_pc' = "kill"
              /\ UNCHANGED <<procChans, respMsg, runResults>>
    /\ UNCHANGED <<env, apart, inst, stream, status, procVars, ctlChans, reqMsg, exitStatus, path,
                   kills, dropTask, ctlSide>>

\* child.kill(), lines 383-386, up to its suspension: the kill is issued
\* (Child::start_kill); the child may have ended by itself just before.
KillAndWait_Kill ==
    /\ proc_pc = "kill"
    /\ kills' = kills + 1
    /\ \E ok \in BOOLEAN :
         IF ~ok
         THEN /\ KillAndWaitFails("CouldNotKillProcess")
              /\ UNCHANGED osVars
         ELSE /\ osChild' = KilledOs(osChild)
              /\ exitStatus' = KilledOsExit(osChild, exitStatus, platform)
              /\ proc_pc' = "killing"
              /\ UNCHANGED <<procChans, respMsg, runResults>>
    /\ UNCHANGED <<env, apart, inst, stream, status, procVars, ctlChans, reqMsg, path, dropTask, ctlSide>>

\* child.kill().await completes, lines 383-388: on success the bit is set.
KillAndWait_Killed ==
    /\ proc_pc = "killing"
    /\ \E ok \in BOOLEAN :
         IF ~ok
         THEN /\ KillAndWaitFails("CouldNotKillProcess")
              /\ UNCHANGED child_killed_successfuly
         ELSE /\ child_killed_successfuly' = TRUE
              /\ proc_pc' = "wait"
              /\ UNCHANGED <<procChans, respMsg, runResults>>
    /\ UNCHANGED <<env, apart, inst, stream, status, child, controller_dropped, ctlChans, reqMsg,
                   osVars, path, kills, dropTask, ctlSide>>

\* KillAndWait_Wait taking the exit status without the wait on the child.
KillAndWait_Wait_NoReap ==
    /\ proc_pc = "wait"
    /\ proc_pc' = "set_status"
    /\ UNCHANGED <<env, apart, inst, stream, status, procVars, procChans, ctlChans, reqMsg, respMsg, osVars,
                   path, runResults, kills, dropTask, ctlSide>>

\* KillAndWait_Wait completing only once the forwarder task has ended.
KillAndWait_Wait_JoinsForwarder ==
    /\ proc_pc = "wait"
    /\ osChild = "exited"
    /\ fwd_pc \in {"none", "eof", "error", "closed"}
    /\ \E ok \in BOOLEAN :
         IF ~ok
         THEN /\ KillAndWaitFails("CouldNotWaitForProcess")
              /\ UNCHANGED osChild
         ELSE /\ osChild' = "reaped"
              /\ proc_pc' = "set_status"
              /\ UNCHANGED <<procChans, respMsg, runResults>>
    /\ UNCHANGED <<env, apart, inst, stream, status, procVars, ctlChans, reqMsg, exitStatus, path,
                   kills, dropTask, ctlSide>>

\* child.wait().await, lines 390-393.
KillAndWait_Wait ==
    /\ proc_pc = "wait"
    /\ osChild = "exited"
    /\ \E ok \in BOOLEAN :
         IF ~ok
         THEN /\ KillAndWaitFails("CouldNotWaitForProcess")
              /\ UNCHANGED osChild
         ELSE /\ osChild' = "reaped"
              /\ proc_pc' = "set_status"
              /\ UNCHANGED <<procChans, respMsg, runResults>>
    /\ UNCHANGED <<env, apart, inst, stream, status, procVars, ctlChans, reqMsg, exitStatus, path,
                   kills, dropTask, ctlSide>>

----------------------------------------------------------------------------
(* Process::set_status_on_exit_status and the end of run                   *)

\* SetStatusOnExitStatus answering the controller before the Status is written.
SetStatus_RespondsBeforeOverwrite ==
    /\ proc_pc = "set_status"
    /\ IF path = "cancel"
       THEN /\ status' = status
            /\ IF cancel_status_channel_receiver = "dropped"
               THEN /\ RunReturns(RunErr("ControllerDropped"))
                    /\ cancel_status_channel_sender' = "dropped"
                    /\ UNCHANGED respMsg
               ELSE /\ respMsg' = "None"
                    /\ cancel_status_channel_sender' = "sent"
                    /\ proc_pc' = "return"
                    /\ UNCHANGED <<runResults, cancel_channel_receiver>>
       ELSE /\ status' = Terminated(get_termination_status_on_exit_status(
                     exitStatus, child_killed_successfuly, controller_dropped, platform))
            /\ cancel_status_channel_sender' = "dropped"
            /\ proc_pc' = "return"
            /\ UNCHANGED <<respMsg, runResults, cancel_channel_receiver>>
    /\ UNCHANGED <<env, apart, inst, stream, procVars, ctlChans, reqMsg, osVars, path, kills,
                   dropTask, ctlSide>>

\* set_status_on_exit_status, lines 438-444, called at lines 286, 303 and 313;
\* on the cancel path followed by send(None), lines 288-289.
SetStatusOnExitStatus ==
    /\ proc_pc = "set_status"
    /\ status' = Terminated(get_termination_status_on_exit_status(
                     exitStatus, child_killed_successfuly, controller_dropped, platform))
    /\ IF path = "cancel"
       THEN IF cancel_status_channel_receiver = "dropped"
            THEN /\ RunReturns(RunErr("ControllerDropped"))
                 /\ cancel_status_channel_sender' = "dropped"
                 /\ UNCHANGED respMsg
            ELSE /\ respMsg' = "None"
                 /\ cancel_status_channel_sender' = "sent"
                 /\ proc_pc' = "return"
                 /\ UNCHANGED <<runResults, cancel_channel_receiver>>
       ELSE /\ cancel_status_channel_sender' = "dropped"
            /\ proc_pc' = "return"
            /\ UNCHANGED <<respMsg, runResults, cancel_channel_receiver>>
    /\ UNCHANGED <<env, apart, inst, stream, procVars, ctlChans, reqMsg, osVars, path, kills,
                   dropTask, ctlSide>>

\* run, lines 259-261: the status is read and returned.
Run_Return ==
    /\ proc_pc = "return"
    /\ RunReturns(RunOk(status))
    /\ UNCHANGED <<env, apart, inst, stream, status, procVars, cancel_status_channel_sender, ctlChans,
                   reqMsg, respMsg, osVars, path, kills, dropTask, ctlSide>>

\* The caller drops the future of run at one of its suspension points (a
\* select! with a timer, as in tests::observe_process_drop_for_humans) and
\* keeps the Process. A Child still local to run is dropped with it, and
\* kill_on_drop(true), line 346, kills it.
Run_Abandon ==
    /\ proc_pc \in {"spawned", "select", "killing", "set_status", "return"}
    /\ RunReturns(RunAbandoned)
    /\ cancel_status_channel_sender' = DropIfHeld(cancel_status_channel_sender, {"run"})
    /\ IF proc_pc = "spawned"
       THEN /\ osChild' = KilledOs(osChild)
            /\ exitStatus' = KilledOsExit(osChild, exitStatus, platform)
       ELSE UNCHANGED osVars
    /\ UNCHANGED <<env, apart, inst, stream, status, procVars, ctlChans, reqMsg, respMsg, path, kills,
                   dropTask, ctlSide>>

----------------------------------------------------------------------------
(* impl Drop for Process, lines 150-194                                    *)

\* The child is taken; the background task is spawned when there is a child
\* and the bit is not set.
Process_drop ==
    /\ proc_pc = "idle"
    /\ proc_pc' = "dropped"
    /\ cancel_status_channel_sender' = DropIfHeld(cancel_status_channel_sender, {"process"})
    /\ cancel_channel_receiver' = DropIfHeld(cancel_channel_receiver, {"process"})
    /\ child' = FALSE
    /\ dropTask' = IF child /\ ~child_killed_successfuly THEN "scheduled" ELSE dropTask
    /\ UNCHANGED <<env, apart, inst, stream, status, child_killed_successfuly, controller_dropped,
                   ctlChans, reqMsg, respMsg, osVars, path, runResults, kills, ctlSide>>

\* The task spawned at line 165: child.kill().await, child.wait().await; a
\* failure of either is only logged. After a failed kill the wait lasts until
\* the child has ended by itself.
DropTask_KillAndWait ==
    /\ dropTask = "scheduled"
    /\ dropTask' = "done"
    /\ \E killed \in BOOLEAN, waited \in BOOLEAN :
         /\ killed \/ osChild # "alive"
         /\ exitStatus' = IF killed THEN KilledOsExit(osChild, exitStatus, platform)
                          ELSE exitStatus
         /\ osChild' = IF waited THEN "reaped"
                       ELSE IF killed THEN KilledOs(osChild)
                       ELSE osChild
    /\ UNCHANGED <<env, apart, inst, stream, status, procVars, procChans, ctlChans, reqMsg, respMsg,
                   proc_pc, path, runResults, kills, ctlSide>>

\* The OS child ends by itself.
Child_Exit ==
    /\ osChild = "alive"
    /\ osChild' = "exited"
    /\ exitStatus' \in OwnExits(platform)
    /\ UNCHANGED <<env, apart, inst, stream, status, procVars, procChans, ctlChans, reqMsg, respMsg,
                   proc_pc, path, runResults, kills, dropTask, ctlSide>>

----------------------------------------------------------------------------
(* ProcessController                                                        *)

\* cancel returns `result`: the response Receiver it had taken is gone.
CancelReturns(result) ==
    /\ cancelResults' = Append(cancelResults, result)
    /\ ctl_pc' = "idle"
    /\ cancel_status_channel_receiver' = DropIfHeld(cancel_status_channel_receiver, {"cancel"})

\* CancelPrecheck without the Created arm.
CancelPrecheck_PassesCreated(s) ==
    IF s.tag = "Terminated" THEN "ProcessTerminated" ELSE "pass"

\* CancelPrecheck with the errors of the two arms exchanged.
CancelPrecheck_SwapsArms(s) ==
    IF s.tag = "Created" THEN "ProcessTerminated"
    ELSE IF s.tag = "Terminated" THEN "ProcessNotRunning"
    ELSE "pass"

\* The match on the status, lines 91-101: the error to return, or "pass".
CancelPrecheck(s) ==
    IF s.tag = "Created" THEN "ProcessNotRunning"
    ELSE IF s.tag = "Terminated" THEN "ProcessTerminated"
    ELSE "pass"

\* Cancel_Precheck taking the request sender before it looks at the status.
Cancel_Precheck_TakesFirst ==
    /\ ctl_pc = "idle"
    /\ Len(cancelResults) < MaxCancelCalls
    /\ IF CancelPrecheck(status) = "pass"
       THEN /\ ctl_pc' = "send"
            /\ UNCHANGED <<cancelResults, cancel_status_channel_receiver,
                           cancel_channel_sender>>
       ELSE /\ CancelReturns(CancelErr(CancelPrecheck(status), FALSE))
            /\ cancel_channel_sender' = DropIfHeld(cancel_channel_sender, {"controller"})
    /\ UNCHANGED <<env, apart, inst, stream, status, procVars, procChans, reqMsg,
                   respMsg, osVars, proc_pc, path, runResults, lastRead, kills, dropTask,
                   ctlDroppedAt>>

\* cancel, lines 91-101.
Cancel_Precheck ==
    /\ ctl_pc = "idle"
    /\ Len(cancelResults) < MaxCancelCalls
    /\ IF CancelPrecheck(status) = "pass"
       THEN /\ ctl_pc' = "send"
            /\ UNCHANGED <<cancelResults, cancel_status_channel_receiver>>
       ELSE CancelReturns(CancelErr(CancelPrecheck(status), FALSE))
    /\ UNCHANGED <<env, apart, inst, stream, status, procVars, procChans, cancel_channel_sender, reqMsg,
                   respMsg, osVars, proc_pc, path, runResults, lastRead, kills, dropTask,
                   ctlDroppedAt>>

\* Cancel_Send using the ends without checking that they are still there.
Cancel_Send_NoTake ==
    /\ ctl_pc = "send"
    /\ IF cancel_channel_receiver = "dropped"
       THEN /\ cancelResults' = Append(cancelResults, CancelErr("ProcessTerminated", TRUE))
            /\ ctl_pc' = "idle"
            /\ cancel_channel_sender' = "dropped"
            /\ cancel_status_channel_receiver' = "dropped"
            /\ UNCHANGED reqMsg
       ELSE /\ reqMsg' = "full"
            /\ cancel_channel_sender' = "sent"
            /\ cancel_status_channel_receiver' = "cancel"
            /\ ctl_pc' = "await"
            /\ UNCHANGED cancelResults
    /\ UNCHANGED <<env, apart, inst, stream, status, procVars, procChans, respMsg, osVars, proc_pc, path,
                   runResults, lastRead, kills, dropTask, ctlDroppedAt>>

\* cancel, lines 103-117: both ends are taken out of the controller and the
\* request is sent; send fails when the request Receiver is gone.
Cancel_Send ==
    /\ ctl_pc = "send"
    /\ IF cancel_channel_sender # "controller"
       THEN /\ CancelReturns(CancelErr("AlreayTriedToCancel", TRUE))
            /\ UNCHANGED <<cancel_channel_sender, reqMsg>>
       ELSE IF cancel_status_channel_receiver # "controller"
       THEN /\ CancelReturns(CancelErr("AlreayTriedToCancel", TRUE))
            /\ cancel_channel_sender' = "dropped"
            /\ UNCHANGED reqMsg
       ELSE IF cancel_channel_receiver = "dropped"
       THEN /\ cancelResults' = Append(cancelResults, CancelErr("ProcessTerminated", TRUE))
            /\ ctl_pc' = "idle"
            /\ cancel_channel_sender' = "dropped"
            /\ cancel_status_channel_receiver' = "dropped"
            /\ UNCHANGED reqMsg
       ELSE /\ reqMsg' = "full"
            /\ cancel_channel_sender' = "sent"
            /\ cancel_status_channel_receiver' = "cancel"
            /\ ctl_pc' = "await"
            /\ UNCHANGED cancelResults
    /\ UNCHANGED <<env, apart, inst, stream, status, procVars, procChans, respMsg, osVars, proc_pc, path,
                   runResults, lastRead, kills, dropTask, ctlDroppedAt>>

\* cancel, lines 120-127: the response, or the response Sender dropped unused.
Cancel_Receive ==
    /\ ctl_pc = "await"
    /\ \/ /\ respMsg # "empty"
          /\ CancelReturns(CancelOk(respMsg))
       \/ /\ respMsg = "empty"
          /\ cancel_status_channel_sender = "dropped"
          /\ CancelReturns(CancelErr("ProcessTerminated", TRUE))
    /\ UNCHANGED <<env, apart, inst, stream, status, procVars, procChans, cancel_channel_sender, reqMsg,
                   respMsg, osVars, proc_pc, path, runResults, lastRead, kills, dropTask,
                   ctlDroppedAt>>

\* The caller drops the future of cancel while it awaits the response.
Cancel_Abandon ==
    /\ ctl_pc = "await"
    /\ CancelReturns(CancelAbandoned)
    /\ UNCHANGED <<env, apart, inst, stream, status, procVars, procChans, cancel_channel_sender, reqMsg,
                   respMsg, osVars, proc_pc, path, runResults, lastRead, kills, dropTask,
                   ctlDroppedAt>>

\* ProcessController::status, lines 130-132.
Controller_status ==
    /\ ctl_pc = "idle"
    /\ lastRead' = status
    /\ UNCHANGED <<env, apart, inst, stream, status, procVars, procChans, ctlChans, reqMsg, respMsg,
                   osVars, proc_pc, path, ctl_pc, runResults, cancelResults, kills,
                   dropTask, ctlDroppedAt>>

\* The ProcessController is dropped, with the ends it still holds.
Controller_drop ==
    /\ ctl_pc = "idle"
    /\ ctl_pc' = "dropped"
    /\ ctlDroppedAt' = status.tag
    /\ cancel_channel_sender' = DropIfHeld(cancel_channel_sender, {"controller"})
    /\ cancel_status_channel_receiver' =
           DropIfHeld(cancel_status_channel_receiver, {"controller"})
    /\ UNCHANGED <<env, apart, inst, stream, status, procVars, procChans, reqMsg, respMsg, osVars,
                   proc_pc, path, runResults, cancelResults, lastRead, kills, dropTask>>

----------------------------------------------------------------------------
\* The steps of run that the runtime takes as soon as they are ready.
RunStep ==
    \/ Run_SetRunning
    \/ Select_CancelReceived
    \/ Select_ControllerDropped
    \/ Select_ChildExited
    \/ KillAndWait_TryWait
    \/ KillAndWait_Kill
    \/ KillAndWait_Killed
    \/ KillAndWait_Wait
    \/ SetStatusOnExitStatus
    \/ Run_Return

Next ==
    \/ Run_Start
    \/ Run_SetRunning
    \/ Select_CancelReceived
    \/ Select_ControllerDropped
    \/ Select_ChildExited
    \/ KillAndWait_TryWait
    \/ KillAndWait_Kill
    \/ KillAndWait_Killed
    \/ KillAndWait_Wait
    \/ SetStatusOnExitStatus
    \/ Run_Return
    \/ Run_Abandon
    \/ Process_drop
    \/ DropTask_KillAndWait
    \/ Child_Exit
    \/ Cancel_Precheck
    \/ Cancel_Send
    \/ Cancel_Receive
    \/ Cancel_Abandon
    \/ Controller_status
    \/ Controller_drop

Spec == Init /\ [][Next]_vars

\* The runtime polls a future that is ready: a step of run that stays
\* enabled is eventually taken.
FairSpec == Spec /\ WF_vars(RunStep)

----------------------------------------------------------------------------
(* LocalProjectInstaller::check, local_project_installer_2.rs              *)

\* How many times check is called on one installer.
MaxCheckCalls == 1

\* Result of check_dir_exists_and_not_empty: the error, or "Ok" with the
\* ReadDir as it is handed back.
DirOk(rest) == [err |-> "Ok", rest |-> rest]
DirErr(e) == [err |-> e, rest |-> <<>>]

\* check_dir_exists_and_not_empty, lines 378-402: next_entry is called once
\* on the ReadDir to see whether there is an entry, and that same ReadDir is
\* returned: the entry it yielded has been taken off it.
check_dir_exists_and_not_empty(dir, fault) ==
    IF fault = "try_exists" THEN DirErr("CouldNotCheckIfDirExists")
    ELSE IF ~dir.exists THEN DirErr("DirDoesNotExist")
    ELSE IF fault \in {"read_dir", "next_entry"} THEN DirErr("CouldNotCheckIfDirIsEmpty")
    ELSE IF dir.entries = <<>> THEN DirErr("DirIsEmpty")
    ELSE DirOk(Tail(dir.entries))

\* impl From<DirExistsAndNotEmptyError> for ProjectDirError, lines 696-709.
ProjectDirErrorFrom(e) ==
    CASE e = "CouldNotCheckIfDirExists" -> "CouldNotCheckIfProjectDirExists"
      [] e = "DirDoesNotExist" -> "ProjectDirDoesNotExist"
      [] e = "CouldNotCheckIfDirIsEmpty" -> "CouldNotCheckIfProjectDirIsEmpty"
      [] e = "DirIsEmpty" -> "ProjectDirIsEmpty"

\* impl From<DirExistsAndNotEmptyError> for LocustDirError, lines 711-724.
LocustDirErrorFrom(e) ==
    CASE e = "CouldNotCheckIfDirExists" -> "CouldNotCheckIfLocustDirExists"
      [] e = "DirDoesNotExist" -> "LocustDirDoesNotExist"
      [] e = "CouldNotCheckIfDirIsEmpty" -> "CouldNotCheckIfLocustDirIsEmpty"
      [] e = "DirIsEmpty" -> "LocustDirIsEmpty"

\* The while-let loop of lines 410-420 on the ReadDir `rest`; `k` numbers the
\* next_entry call about to be made and `failAt` is the call that fails.
RECURSIVE contains_python_scripts(_, _, _)
contains_python_scripts(rest, k, failAt) ==
    IF k = failAt THEN "CouldNotIterateOverLocustDir"
    ELSE IF rest = <<>> THEN "NoPythonFilesInLocustDir"
    ELSE IF Head(rest) = "py" THEN "Ok"
    ELSE contains_python_scripts(Tail(rest), k + 1, failAt)

\* check_locust_dir_exists_and_not_empty_and_contains_python_scripts, lines
\* 404-421: "Ok" or the LocustDirError.
check_locust_dir_exists_and_not_empty_and_contains_python_scripts(dir, fault) ==
    LET checked == check_dir_exists_and_not_empty(dir, FaultOn(fault, "locust"))
        failAt == IF FaultOn(fault, "locust") = "iterate" THEN fault.n ELSE 0
    IN  IF checked.err # "Ok" THEN LocustDirErrorFrom(checked.err)
        ELSE contains_python_scripts(checked.rest, 1, failAt)

\* check_requirements_txt_exists_and_locust_in_requirements_txt, lines 423-443.
check_requirements_txt_exists_and_locust_in_requirements_txt(requirements, fault) ==
    IF fault = "try_exists" THEN "CouldNotCheckIfRequirementsTxtExists"
    ELSE IF requirements = "missing" THEN "RequirementsTxtDoesNotExist"
    ELSE IF fault = "read_to_string" THEN "CouldNotReadRequirementsTxt"
    ELSE IF requirements # "locust" THEN "LocustIsNotInRequirementsTxt"
    ELSE "Ok"

\* check with the requirements check made before the project directory check.
check_RequirementsFirst(up, fault) ==
    LET project == check_dir_exists_and_not_empty(ProjectDir(up), FaultOn(fault, "project"))
        requirements == check_requirements_txt_exists_and_locust_in_requirements_txt(
                            up.requirements, FaultOn(fault, "requirements"))
        locust == check_locust_dir_exists_and_not_empty_and_contains_python_scripts(
                      up.locust, fault)
    IN  IF requirements # "Ok" THEN CheckErr("Requirements", requirements)
        ELSE IF project.err # "Ok" THEN CheckErr("ProjectDir", ProjectDirErrorFrom(project.err))
        ELSE IF locust # "Ok" THEN CheckErr("LocustDir", locust)
        ELSE CheckOk

\* check, lines 164-179.
check(up, fault) ==
    LET project == check_dir_exists_and_not_empty(ProjectDir(up), FaultOn(fault, "project"))
        requirements == check_requirements_txt_exists_and_locust_in_requirements_txt(
                            up.requirements, FaultOn(fault, "requirements"))
        locust == check_locust_dir_exists_and_not_empty_and_contains_python_scripts(
                      up.locust, fault)
    IN  IF project.err # "Ok" THEN CheckErr("ProjectDir", ProjectDirErrorFrom(project.err))
        ELSE IF requirements # "Ok" THEN CheckErr("Requirements", requirements)
        ELSE IF locust # "Ok" THEN CheckErr("LocustDir", locust)
        ELSE CheckOk

\* A caller calls check; one of its fs calls may fail.
Check_Call ==
    /\ Len(checkResults) < MaxCheckCalls
    /\ \E fault \in FsFaults :
         checkResults' = Append(checkResults, [result |-> check(uploaded, fault), fault |-> fault])
    /\ UNCHANGED <<env, apart, single, stream, uploaded, path_to_str_ok, project_env_dir, ioFiles,
                   processes, instCall, ictl_pc, icancelResults>>

\* An installer over any uploaded directory, of which only check is used.
CheckInit ==
    /\ platform = "linux"
    /\ program = "present"
    /\ ProcessNew
    /\ uploaded \in UploadedDirs
    /\ path_to_str_ok = TRUE
    /\ project_env_dir = FALSE
    /\ InstallerNew
    /\ NoStreams
    /\ NoRemoval
    /\ NoSharedSink

CheckNext == Check_Call

CheckSpec == CheckInit /\ [][CheckNext]_vars

----------------------------------------------------------------------------
(* LocalProjectInstaller::install and check_and_install                     *)

\* How many times check_and_install is called on one installer.
MaxInstallCalls == 2
\* How many times LocalProjectInstallerController::cancel is called.
MaxInstallerCancelCalls == 1
\* max_attempts of delete_environment_dir, line 334.
MaxAttempts == 5

\* The position of install while it awaits the run of phase p.
RunPc(p) == IF p = "venv" THEN "venv_run" ELSE "req_run"

\* The variant of ErrorThatTriggersCleanUp that install names for phase p,
\* lines 236 and 263.
Variant(p) == IF p = "venv" THEN "VenvInstallError" ELSE "RequirementsInstallError"

\* generate_process_run_result with the Killed arm taken for Ok(()).
generate_process_run_result_KilledIsOk(result, variant) ==
    IF result.res # "Ok" THEN TriggersCleanUp(variant, "RunError", result)
    ELSE IF result.status.tag # "Terminated"
         THEN TriggersCleanUp(variant, "UnexpectedStatus", result)
    ELSE IF result.status.term \in {"TerminatedSuccessfully", "Killed"} THEN NoError
    ELSE TriggersCleanUp(variant, "TerminatedWithError", result)

\* macro generate_process_run_result, lines 84-114: NoError stands for Ok(()).
generate_process_run_result(result, variant) ==
    IF result.res # "Ok" THEN TriggersCleanUp(variant, "RunError", result)
    ELSE IF result.status.tag # "Terminated"
         THEN TriggersCleanUp(variant, "UnexpectedStatus", result)
    ELSE IF result.status.term = "TerminatedSuccessfully" THEN NoError
    ELSE IF result.status.term = "Killed" THEN TriggersCleanUp(variant, "Killed", result)
    ELSE TriggersCleanUp(variant, "TerminatedWithError", result)

\* check_and_install returns.
InstallReturns(res, error, cleanup, checked, cleaned, env_after) ==
    /\ installResults' = Append(installResults,
           InstallResult(res, error, cleanup, checked, cleaned, env_after))
    /\ inst_pc' = "idle"
    /\ pending' = NoError
    /\ attempts' = 0

\* Install_Call with clean-up started on a start error too.
Install_Call_CleansUpStartErrors ==
    /\ inst_pc = "idle"
    /\ Len(installResults) < MaxInstallCalls
    /\ \E fault \in FsFaults, failing \in 0..4 :
         LET checked == check(uploaded, fault)
         IN  IF checked # CheckOk
             THEN /\ InstallReturns("CheckError", NoError, "-", checked, FALSE,
                                    project_env_dir)
                  /\ UNCHANGED <<ioFiles, project_env_dir>>
             ELSE IF ~path_to_str_ok
             THEN /\ InstallReturns("FailedToConvertPathBufToString", NoError, "-",
                                    checked, FALSE, project_env_dir)
                  /\ UNCHANGED <<ioFiles, project_env_dir>>
             ELSE IF failing # 0
             THEN /\ ioFiles' = IF ioFiles > failing - 1 THEN ioFiles ELSE failing - 1
                  /\ project_env_dir' = FALSE
                  /\ InstallReturns(
                         IF failing <= 2 THEN "VenvStartError" ELSE "RequirementsStartError",
                         NoError, "-", checked, TRUE, FALSE)
             ELSE /\ ioFiles' = 4
                  /\ inst_pc' = "venv_run"
                  /\ UNCHANGED <<pending, attempts, installResults, project_env_dir>>
    /\ UNCHANGED <<env, apart, single, stream, dirs, processes, ictl_pc, icancelResults>>

\* check_and_install, lines 272-282, up to the call of venv_process.run by
\* install: check (272-275), the path conversions (187-195),
\* create_io_files (197-202, 515-527; `failing` is the creation that fails,
\* 0 for none) and the spawn of the venv relay tasks (204-224).
Install_Call ==
    /\ inst_pc = "idle"
    /\ Len(installResults) < MaxInstallCalls
    /\ \E fault \in FsFaults, failing \in 0..4 :
         LET checked == check(uploaded, fault)
         IN  IF checked # CheckOk
             THEN /\ InstallReturns("CheckError", NoError, "-", checked, FALSE,
                                    project_env_dir)
                  /\ UNCHANGED ioFiles
             ELSE IF ~path_to_str_ok
             THEN /\ InstallReturns("FailedToConvertPathBufToString", NoError, "-",
                                    checked, FALSE, project_env_dir)
                  /\ UNCHANGED ioFiles
             ELSE IF failing # 0
             THEN /\ ioFiles' = IF ioFiles > failing - 1 THEN ioFiles ELSE failing - 1
                  /\ InstallReturns(
                         IF failing <= 2 THEN "VenvStartError" ELSE "RequirementsStartError",
                         NoError, "-", checked, FALSE, project_env_dir)
             ELSE /\ ioFiles' = 4
                  /\ inst_pc' = "venv_run"
                  /\ UNCHANGED <<pending, attempts, installResults>>
    /\ UNCHANGED <<env, apart, single, stream, dirs, project_env_dir, processes, ictl_pc, icancelResults>>

\* clean_up_on_error_and_return_error, lines 467-475, up to
\* fs::try_exists(project_env_dir) of delete_environment_dir_if_exists, line 325:
\* Err is returned as CleanUpError next to the phase error, Ok(false) ends the
\* clean-up, Ok(true) leads to delete_environment_dir.
Cleanup_TryExists ==
    /\ inst_pc = "cleanup"
    /\ \E ok \in BOOLEAN :
         IF ~ok
         THEN InstallReturns("CleanUpError", pending, "CouldNotCheckIfDirExists",
                             CheckOk, TRUE, project_env_dir)
         ELSE IF ~project_env_dir
         THEN /\ inst_pc' = "cleaned"
              /\ UNCHANGED <<pending, attempts, installResults>>
         ELSE /\ inst_pc' = "remove"
              /\ attempts' = 0
              /\ UNCHANGED <<pending, installResults>>
    /\ UNCHANGED <<env, apart, single, stream, dirs, project_env_dir, ioFiles, processes, ictl_pc,
                   icancelResults>>

\* One turn of the loop of remove_dir_all_with_max_attempts_and_delay,
\* util.rs lines 16-26: fs::remove_dir_all succeeds and the loop is left, or
\* it fails and the task sleeps.
Cleanup_Remove ==
    /\ inst_pc = "remove"
    /\ attempts < MaxAttempts
    /\ \E ok \in BOOLEAN :
         IF ok
         THEN /\ project_env_dir' = FALSE
              /\ inst_pc' = "cleaned"
              /\ UNCHANGED <<pending, attempts, installResults>>
         ELSE /\ attempts' = attempts + 1
              /\ UNCHANGED <<project_env_dir, inst_pc, pending,
                             installResults>>
    /\ UNCHANGED <<env, apart, single, stream, dirs, ioFiles, processes, ictl_pc, icancelResults>>

\* Cleanup_Exhausted returning the clean-up error without the phase error.
Cleanup_Exhausted_DropsOriginal ==
    /\ inst_pc = "remove"
    /\ attempts = MaxAttempts
    /\ InstallReturns("CleanUpError", NoError, "MaxAttemptsExceeded", CheckOk,
                      TRUE, project_env_dir)
    /\ UNCHANGED <<env, apart, single, stream, dirs, project_env_dir, ioFiles, processes, ictl_pc,
                   icancelResults>>

\* The loop is over, util.rs line 28: Err(MaxAttemptsExceeded(errors)), which
\* clean_up_on_error_and_return_error returns next to the phase error.
Cleanup_Exhausted ==
    /\ inst_pc = "remove"
    /\ attempts = MaxAttempts
    /\ InstallReturns("CleanUpError", pending, "MaxAttemptsExceeded", CheckOk,
                      TRUE, project_env_dir)
    /\ UNCHANGED <<env, apart, single, stream, dirs, project_env_dir, ioFiles, processes, ictl_pc,
                   icancelResults>>

\* The clean-up returned Ok: the task is polled again and
\* clean_up_on_error_and_return_error returns the phase error, line 472.
Cleanup_Return ==
    /\ inst_pc = "cleaned"
    /\ InstallReturns("ErrorThatTriggersCleanUp", pending, "-", CheckOk,
                      TRUE, project_env_dir)
    /\ UNCHANGED <<env, apart, single, stream, dirs, project_env_dir, ioFiles, processes, ictl_pc,
                   icancelResults>>

----------------------------------------------------------------------------
(* Process::run of venv_process and of req_process inside install: the     *)
(* steps of the single pair above, on processes[p].                        *)

\* What no step of a run changes.
PhaseFrame == UNCHANGED <<env, apart, single, stream, dirs, project_env_dir, ioFiles, ictl_pc, icancelResults>>

\* The pair p becomes r and install stays inside the run.
PhaseStep(p, r) ==
    /\ processes' = [processes EXCEPT ![p] = r]
    /\ UNCHANGED instCall

\* PhaseReturns going on to the requirements phase whatever the venv run returned.
PhaseReturns_AlwaysProceeds(p, r, result) ==
    /\ processes' = [processes EXCEPT ![p] =
           [r EXCEPT !.pc = "idle",
                     !.results = Append(@, result),
                     !.cancel_channel_receiver = DropIfHeld(@, {"run"})]]
    /\ IF p = "venv"
       THEN /\ inst_pc' = "req_run"
            /\ UNCHANGED <<pending, attempts, installResults>>
       ELSE IF generate_process_run_result(result, Variant(p)) = NoError
       THEN InstallReturns("Ok", NoError, "-", CheckOk, FALSE,
                           project_env_dir)
       ELSE /\ inst_pc' = "cleanup"
            /\ pending' = generate_process_run_result(result, Variant(p))
            /\ UNCHANGED <<attempts, installResults>>

\* PhaseReturns returning the phase error without the clean-up.
PhaseReturns_NoCleanUp(p, r, result) ==
    /\ processes' = [processes EXCEPT ![p] =
           [r EXCEPT !.pc = "idle",
                     !.results = Append(@, result),
                     !.cancel_channel_receiver = DropIfHeld(@, {"run"})]]
    /\ IF generate_process_run_result(result, Variant(p)) = NoError
       THEN IF p = "venv"
            THEN /\ inst_pc' = "req_run"
                 /\ UNCHANGED <<pending, attempts, installResults>>
            ELSE InstallReturns("Ok", NoError, "-", CheckOk, FALSE,
                                project_env_dir)
       ELSE InstallReturns("ErrorThatTriggersCleanUp",
                           generate_process_run_result(result, Variant(p)), "-", CheckOk,
                           FALSE, project_env_dir)

\* The run of pair p returns `result`, r being the pair at that moment, and
\* install goes on, lines 234-240 and 261-269: Ok(()) of the venv phase leads
\* to the requirements phase, Ok(()) of the requirements phase to Ok(()), and
\* an error to clean_up_on_error_and_return_error.
PhaseReturns(p, r, result) ==
    /\ processes' = [processes EXCEPT ![p] =
           [r EXCEPT !.pc = "idle",
                     !.results = Append(@, result),
                     !.cancel_channel_receiver = DropIfHeld(@, {"run"})]]
    /\ IF generate_process_run_result(result, Variant(p)) = NoError
       THEN IF p = "venv"
            THEN /\ inst_pc' = "req_run"
                 /\ UNCHANGED <<pending, attempts, installResults>>
            ELSE InstallReturns("Ok", NoError, "-", CheckOk, FALSE,
                                project_env_dir)
       ELSE /\ inst_pc' = "cleanup"
            /\ pending' = generate_process_run_result(result, Variant(p))
            /\ UNCHANGED <<attempts, installResults>>

\* run, lines 242-254, called at line 234 (venv) or 261 (req): as Run_Start.
Phase_Start(p) ==
    LET r == processes[p] IN
    /\ inst_pc = RunPc(p)
    /\ r.pc = "idle"
    /\ IF r.cancel_status_channel_sender # "process"
       THEN PhaseReturns(p, r, RunErr("AlreayTriedToRun"))
       ELSE IF r.cancel_channel_receiver # "process"
       THEN PhaseReturns(p, [r EXCEPT !.cancel_status_channel_sender = "dropped"],
                         RunErr("AlreayTriedToRun"))
       ELSE \E io \in SpawnOutcomes("present") :
              IF io = "spawned"
              THEN PhaseStep(p, [r EXCEPT !.pc = "spawned",
                                          !.cancel_status_channel_sender = "run",
                                          !.cancel_channel_receiver = "run",
                                          !.osChild = "alive"])
              ELSE PhaseReturns(p, [r EXCEPT !.cancel_status_channel_sender = "dropped",
                                             !.cancel_channel_receiver = "dropped"],
                                RunSpawnErr(io))
    /\ PhaseFrame

\* As Run_SetRunning.
Phase_SetRunning(p) ==
    LET r == processes[p] IN
    /\ r.pc = "spawned"
    /\ PhaseStep(p, [r EXCEPT !.status = Running, !.child = TRUE, !.pc = "select"])
    /\ PhaseFrame

\* As Select_CancelReceived.
Phase_CancelReceived(p) ==
    LET r == processes[p] IN
    /\ r.pc = "select"
    /\ r.reqMsg = "full"
    /\ PhaseStep(p, [r EXCEPT !.reqMsg = "received", !.cancel_channel_receiver = "dropped",
                              !.path = "cancel", !.pc = "try_wait"])
    /\ PhaseFrame

\* Phase_ControllerDropped without the controller_dropped bit.
Phase_ControllerDropped_NoFlag(p) ==
    LET r == processes[p] IN
    /\ r.pc = "select"
    /\ r.reqMsg = "empty"
    /\ r.cancel_channel_sender = "dropped"
    /\ PhaseStep(p, [r EXCEPT !.cancel_channel_receiver = "dropped",
                              !.path = "drop", !.pc = "try_wait"])
    /\ PhaseFrame

\* As Select_ControllerDropped.
Phase_ControllerDropped(p) ==
    LET r == processes[p] IN
    /\ r.pc = "select"
    /\ r.reqMsg = "empty"
    /\ r.cancel_channel_sender = "dropped"
    /\ PhaseStep(p, [r EXCEPT !.controller_dropped = TRUE,
                              !.cancel_channel_receiver = "dropped",
                              !.path = "drop", !.pc = "try_wait"])
    /\ PhaseFrame

\* As Select_ChildExited.
Phase_ChildExited(p) ==
    LET r == processes[p] IN
    /\ r.pc = "select"
    /\ \E ok \in BOOLEAN :
         IF ok
         THEN /\ r.osChild = "exited"
              /\ PhaseStep(p, [r EXCEPT !.osChild = "reaped",
                                        !.cancel_channel_receiver = "dropped",
                                        !.path = "self", !.pc = "set_status"])
         ELSE PhaseReturns(p, [r EXCEPT !.path = "self",
                                        !.cancel_status_channel_sender = "dropped"],
                           RunErr("CouldNotWaitForOsProcess"))
    /\ PhaseFrame

\* As KillAndWaitFails.
PhaseKillAndWaitFails(p, r, e) ==
    IF r.path = "cancel"
    THEN IF r.cancel_status_channel_receiver = "dropped"
         THEN PhaseReturns(p, [r EXCEPT !.cancel_status_channel_sender = "dropped"],
                           RunErr("ControllerDropped"))
         ELSE PhaseStep(p, [r EXCEPT !.respMsg = e,
                                     !.cancel_status_channel_sender = "sent",
                                     !.pc = "return"])
    ELSE PhaseReturns(p, [r EXCEPT !.cancel_status_channel_sender = "dropped"], RunErr(e))

\* As KillAndWait_TryWait.
Phase_TryWait(p) ==
    LET r == processes[p] IN
    /\ r.pc = "try_wait"
    /\ \E ok \in BOOLEAN :
         IF ~ok THEN PhaseKillAndWaitFails(p, r, "CouldNotCheckStatus")
         ELSE IF r.osChild = "exited"
         THEN PhaseStep(p, [r EXCEPT !.osChild = "reaped", !.pc = "set_status"])
         ELSE PhaseStep(p, [r EXCEPT !.pc = "kill"])
    /\ PhaseFrame

\* As KillAndWait_Kill.
Phase_Kill(p) ==
    LET r == [processes[p] EXCEPT !.kills = @ + 1] IN
    /\ r.pc = "kill"
    /\ \E ok \in BOOLEAN :
         IF ~ok THEN PhaseKillAndWaitFails(p, r, "CouldNotKillProcess")
         ELSE PhaseStep(p, [r EXCEPT !.osChild = KilledOs(r.osChild),
                                     !.exitStatus = KilledOsExit(r.osChild, r.exitStatus, platform),
                                     !.pc = "killing"])
    /\ PhaseFrame

\* As KillAndWait_Killed.
Phase_Killed(p) ==
    LET r == processes[p] IN
    /\ r.pc = "killing"
    /\ \E ok \in BOOLEAN :
         IF ~ok THEN PhaseKillAndWaitFails(p, r, "CouldNotKillProcess")
         ELSE PhaseStep(p, [r EXCEPT !.child_killed_successfuly = TRUE, !.pc = "wait"])
    /\ PhaseFrame

\* As KillAndWait_Wait.
Phase_Wait(p) ==
    LET r == processes[p] IN
    /\ r.pc = "wait"
    /\ r.osChild = "exited"
    /\ \E ok \in BOOLEAN :
         IF ~ok THEN PhaseKillAndWaitFails(p, r, "CouldNotWaitForProcess")
         ELSE PhaseStep(p, [r EXCEPT !.osChild = "reaped", !.pc = "set_status"])
    /\ PhaseFrame

\* As SetStatusOnExitStatus.
Phase_SetStatus(p) ==
    LET r == [processes[p] EXCEPT !.status =
                  Terminated(get_termination_status_on_exit_status(
                      processes[p].exitStatus, processes[p].child_killed_successfuly,
                      processes[p].controller_dropped, platform))] IN
    /\ r.pc = "set_status"
    /\ IF r.path = "cancel"
       THEN IF r.cancel_status_channel_receiver = "dropped"
            THEN PhaseReturns(p, [r EXCEPT !.cancel_status_channel_sender = "dropped"],
                              RunErr("ControllerDropped"))
            ELSE PhaseStep(p, [r EXCEPT !.respMsg = "None",
                                        !.cancel_status_channel_sender = "sent",
                                        !.pc = "return"])
       ELSE PhaseStep(p, [r EXCEPT !.cancel_status_channel_sender = "dropped",
                                   !.pc = "return"])
    /\ PhaseFrame

\* As Run_Return.
Phase_Return(p) ==
    LET r == processes[p] IN
    /\ r.pc = "return"
    /\ PhaseReturns(p, r, RunOk(r.status))
    /\ PhaseFrame

\* The exit statuses python3 -m venv and pip3 install reach by themselves.
InstallerExits(plat) == OwnExits(plat) \ {ExitCode(2)}

\* As Child_Exit.
Phase_ChildExit(p) ==
    LET r == processes[p] IN
    /\ r.osChild = "alive"
    /\ \E es \in InstallerExits(platform) :
         PhaseStep(p, [r EXCEPT !.osChild = "exited", !.exitStatus = es])
    /\ PhaseFrame

\* A living child (python3 -m venv project_env_dir, line 228; pip3 install,
\* line 255, of project_env_dir) creates project_env_dir.
Child_CreatesEnvDir(p) ==
    /\ processes[p].osChild = "alive"
    /\ ~project_env_dir
    /\ project_env_dir' = TRUE
    /\ UNCHANGED <<env, apart, single, stream, dirs, ioFiles, processes, instCall, ictl_pc, icancelResults>>

----------------------------------------------------------------------------
(* LocalProjectInstallerController                                          *)

\* What no step of the installer controller changes.
ControllerFrame == UNCHANGED <<env, apart, single, stream, dirs, project_env_dir, ioFiles, instCall>>

\* The positions of the installer controller inside the cancel of pair p.
SendPc(p) == IF p = "venv" THEN "venv_send" ELSE "req_send"
AwaitPc(p) == IF p = "venv" THEN "venv_await" ELSE "req_await"

\* LocalProjectInstallerController::cancel returns.
InstallerCancelReturns(result) ==
    /\ icancelResults' = Append(icancelResults, result)
    /\ ictl_pc' = "idle"

\* PairCancelReturns going on to the requirements pair after any error of the
\* venv cancel.
PairCancelReturns_AnyVenvError(p, r, result) ==
    /\ processes' = [processes EXCEPT ![p] =
           [r EXCEPT !.cancel_status_channel_receiver = DropIfHeld(@, {"cancel"})]]
    /\ IF result.res = "Ok"
       THEN InstallerCancelReturns(InstallerCancelResult("Ok", p, result.payload, "-"))
       ELSE IF p = "venv"
       THEN /\ ictl_pc' = "req_pre"
            /\ UNCHANGED icancelResults
       ELSE InstallerCancelReturns(
                InstallerCancelResult("ReqCancellationError", p, "-", result.res))

\* ProcessController::cancel of pair p returns `result` to
\* LocalProjectInstallerController::cancel, lines 30-42 (venv) and 60-64
\* (req): an Ok is returned tagged with the pair; Err(ProcessTerminated) of
\* the venv pair leads to cancel_req_mapped; any other Err is returned as
\* VenvCancellationError or ReqCancellationError.
PairCancelReturns(p, r, result) ==
    /\ processes' = [processes EXCEPT ![p] =
           [r EXCEPT !.cancel_status_channel_receiver = DropIfHeld(@, {"cancel"})]]
    /\ IF result.res = "Ok"
       THEN InstallerCancelReturns(InstallerCancelResult("Ok", p, result.payload, "-"))
       ELSE IF p = "venv" /\ result.res = "ProcessTerminated"
       THEN /\ ictl_pc' = "req_pre"
            /\ UNCHANGED icancelResults
       ELSE InstallerCancelReturns(
                InstallerCancelResult(IF p = "venv" THEN "VenvCancellationError"
                                      ELSE "ReqCancellationError", p, "-", result.res))

\* The cancel of pair p goes on inside ProcessController::cancel.
PairCancelStep(p, r, pc) ==
    /\ processes' = [processes EXCEPT ![p] = r]
    /\ ictl_pc' = pc
    /\ UNCHANGED icancelResults

\* LocalProjectInstallerController::cancel is called, line 30 (venv), or has
\* reached cancel_req_mapped, line 35 (req): the status pre-check of
\* ProcessController::cancel, as Cancel_Precheck.
InstallerCancel_Precheck(p) ==
    LET r == processes[p] IN
    /\ \/ p = "venv" /\ ictl_pc = "idle" /\ Len(icancelResults) < MaxInstallerCancelCalls
       \/ p = "req" /\ ictl_pc = "req_pre"
    /\ IF CancelPrecheck(r.status) = "pass"
       THEN PairCancelStep(p, r, SendPc(p))
       ELSE PairCancelReturns(p, r, CancelErr(CancelPrecheck(r.status), FALSE))
    /\ ControllerFrame

\* As Cancel_Send.
InstallerCancel_Send(p) ==
    LET r == processes[p] IN
    /\ ictl_pc = SendPc(p)
    /\ IF r.cancel_channel_sender # "controller"
       THEN PairCancelReturns(p, r, CancelErr("AlreayTriedToCancel", TRUE))
       ELSE IF r.cancel_status_channel_receiver # "controller"
       THEN PairCancelReturns(p, [r EXCEPT !.cancel_channel_sender = "dropped"],
                              CancelErr("AlreayTriedToCancel", TRUE))
       ELSE IF r.cancel_channel_receiver = "dropped"
       THEN PairCancelReturns(p, [r EXCEPT !.cancel_channel_sender = "dropped",
                                           !.cancel_status_channel_receiver = "dropped"],
                              CancelErr("ProcessTerminated", TRUE))
       ELSE PairCancelStep(p, [r EXCEPT !.reqMsg = "full",
                                        !.cancel_channel_sender = "sent",
                                        !.cancel_status_channel_receiver = "cancel"],
                           AwaitPc(p))
    /\ ControllerFrame

\* As Cancel_Receive.
InstallerCancel_Receive(p) ==
    LET r == processes[p] IN
    /\ ictl_pc = AwaitPc(p)
    /\ \/ /\ r.respMsg # "empty"
          /\ PairCancelReturns(p, r, CancelOk(r.respMsg))
       \/ /\ r.respMsg = "empty"
          /\ r.cancel_status_channel_sender = "dropped"
          /\ PairCancelReturns(p, r, CancelErr("ProcessTerminated", TRUE))
    /\ ControllerFrame

\* The LocalProjectInstallerController is dropped, and with it venv_controller
\* and req_controller, each as in Controller_drop.
InstallerController_drop ==
    /\ ictl_pc = "idle"
    /\ ictl_pc' = "dropped"
    /\ processes' = [p \in Phases |->
           [processes[p] EXCEPT
               !.cancel_channel_sender = DropIfHeld(@, {"controller"}),
               !.cancel_status_channel_receiver = DropIfHeld(@, {"controller"})]]
    /\ UNCHANGED icancelResults
    /\ ControllerFrame

----------------------------------------------------------------------------
\* The uploaded directories an installation is tried on: one that passes
\* check and one that does not exist.
InstallUploads == {Upload(TRUE, "locust", Dir(<<"txt", "py">>), FALSE), NoUpload}

\* LocalProjectInstaller::new, lines 128-160, on some directories.
InstallInit ==
    /\ platform \in Platforms
    /\ program = "present"
    /\ ProcessNew
    /\ uploaded \in InstallUploads
    /\ path_to_str_ok \in BOOLEAN
    /\ project_env_dir \in BOOLEAN
    /\ InstallerNew
    /\ NoStreams
    /\ NoRemoval
    /\ NoSharedSink

InstallNext ==
    \/ Install_Call
    \/ \E p \in Phases : Phase_Start(p)
    \/ \E p \in Phases : Phase_SetRunning(p)
    \/ \E p \in Phases : Phase_CancelReceived(p)
    \/ \E p \in Phases : Phase_ControllerDropped(p)
    \/ \E p \in Phases : Phase_ChildExited(p)
    \/ \E p \in Phases : Phase_TryWait(p)
    \/ \E p \in Phases : Phase_Kill(p)
    \/ \E p \in Phases : Phase_Killed(p)
    \/ \E p \in Phases : Phase_Wait(p)
    \/ \E p \in Phases : Phase_SetStatus(p)
    \/ \E p \in Phases : Phase_Return(p)
    \/ \E p \in Phases : Phase_ChildExit(p)
    \/ \E p \in Phases : Child_CreatesEnvDir(p)
    \/ Cleanup_TryExists
    \/ Cleanup_Remove
    \/ Cleanup_Exhausted
    \/ Cleanup_Return
    \/ \E p \in Phases : InstallerCancel_Precheck(p)
    \/ \E p \in Phases : InstallerCancel_Send(p)
    \/ \E p \in Phases : InstallerCancel_Receive(p)
    \/ InstallerController_drop

InstallSpec == InstallInit /\ [][InstallNext]_vars

----------------------------------------------------------------------------
(* One output stream: the child's pipe, the task of Process::forward_io,   *)
(* the bounded channel, the task of do_forward_io_and_write_to_file with    *)
(* its file, and the caller's relay sink.                                   *)

\* How many lines the child writes to the stream at most.
MaxLines == 3
\* The capacity of the channel between the forwarder and the relay task.
ChannelCapacity == 1

\* The frame of a step of the stream: the Process, its controller and the
\* installer are left alone.
StreamFrame == UNCHANGED <<env, apart, inst, single>>

\* The child writes one more line, terminated by a newline, to its stdout.
Child_Emit ==
    /\ osChild = "alive"
    /\ stdout_sender # "none"
    /\ Len(emitted) < MaxLines
    /\ \E utf8 \in BOOLEAN :
         emitted' = Append(emitted, Line(Len(emitted) + 1, utf8, TRUE))
    /\ StreamFrame
    /\ UNCHANGED <<fwd, channel, stdout_receiver, relay>>

\* The forwarder ends: the task's captures, the Sender among them, are dropped.
ForwarderEnds(how) ==
    /\ fwd_pc' = how
    /\ stdout_sender' = "dropped"
    /\ fwd_line' = NoLine

\* lines.next_line().await, line 502: Ok(Some(line)) without the terminator,
\* Ok(None) at the end of the stream (the child has ended and everything it
\* wrote was read), Err on an I/O error and on a line that is not valid UTF-8;
\* `while let Ok(Some(line))` leaves the loop on the last two.
Forward_NextLine ==
    /\ fwd_pc = "next_line"
    /\ IF lines_read < Len(emitted)
       THEN \E ok \in BOOLEAN :
              IF ok /\ emitted[lines_read + 1].utf8
              THEN /\ fwd_line' = [emitted[lines_read + 1] EXCEPT !.nl = FALSE]
                   /\ lines_read' = lines_read + 1
                   /\ fwd_pc' = "send"
                   /\ UNCHANGED stdout_sender
              ELSE /\ ForwarderEnds("error")
                   /\ UNCHANGED lines_read
       ELSE /\ osChild \in {"exited", "reaped"}
            /\ \E ok \in BOOLEAN : ForwarderEnds(IF ok THEN "eof" ELSE "error")
            /\ UNCHANGED lines_read
    /\ StreamFrame
    /\ UNCHANGED <<emitted, channel, stdout_receiver, relay>>

\* Forward_Send going back to the read without the line put into the channel.
Forward_Send_DropsLine ==
    /\ fwd_pc = "send"
    /\ IF stdout_receiver = "closed"
       THEN ForwarderEnds("closed")
       ELSE /\ fwd_pc' = "next_line"
            /\ fwd_line' = NoLine
            /\ UNCHANGED stdout_sender
    /\ StreamFrame
    /\ UNCHANGED <<lines_read, emitted, channel, stdout_receiver, relay>>

\* sender.send(line).await, lines 503-505: waits for room in the channel;
\* an Err (the Receiver is closed) breaks the loop.
Forward_Send ==
    /\ fwd_pc = "send"
    /\ IF stdout_receiver = "closed"
       THEN /\ ForwarderEnds("closed")
            /\ UNCHANGED channel
       ELSE /\ Len(channel) < ChannelCapacity
            /\ channel' = Append(channel, fwd_line)
            /\ fwd_pc' = "next_line"
            /\ fwd_line' = NoLine
            /\ UNCHANGED stdout_sender
    /\ StreamFrame
    /\ UNCHANGED <<lines_read, emitted, stdout_receiver, relay>>

\* The relay task ends: its Receiver is dropped and what the channel still
\* held is gone with it.
RelayEnds(how) ==
    /\ relay_pc' = how
    /\ stdout_receiver' = "closed"
    /\ channel' = <<>>

\* receiver.recv().await and line.push('\n'), lines 291-292: the next line,
\* or None once the channel is empty and its Sender dropped.
Relay_Recv ==
    /\ relay_pc = "recv"
    /\ IF channel # <<>>
       THEN /\ received' = Append(received, Head(channel))
            /\ relay_line' = [Head(channel) EXCEPT !.nl = TRUE]
            /\ channel' = Tail(channel)
            /\ relay_pc' = "write"
            /\ UNCHANGED stdout_receiver
       ELSE /\ stdout_sender = "dropped"
            /\ RelayEnds("done")
            /\ UNCHANGED <<received, relay_line>>
    /\ StreamFrame
    /\ UNCHANGED <<fwd, emitted, stdout_file, last_write_err, sender_to_forward_to,
                   relay_receiver, relayed>>

\* Relay_Write going on after a write has returned its error.
Relay_Write_IgnoresError ==
    /\ relay_pc = "write"
    /\ \E written \in BOOLEAN :
         /\ stdout_file' = IF written THEN Append(stdout_file, relay_line)
                           ELSE stdout_file
         /\ last_write_err' = ~written
    /\ relay_pc' = IF sender_to_forward_to = "none" THEN "recv" ELSE "forward"
    /\ StreamFrame
    /\ UNCHANGED <<fwd, emitted, channel, stdout_receiver, received, relay_line,
                   sender_to_forward_to, relay_receiver, relayed>>

\* file.write_all(line.as_bytes()).await, lines 293-296, on a tokio::fs::File
\* that is never flushed: the call hands the bytes to a blocking write and
\* returns Ok; if that write fails, the error is what the next write on the
\* file returns. An Err breaks the loop.
Relay_Write ==
    /\ relay_pc = "write"
    /\ IF last_write_err
       THEN /\ RelayEnds("broken")
            /\ last_write_err' = FALSE
            /\ UNCHANGED stdout_file
       ELSE /\ \E written \in BOOLEAN :
                 /\ stdout_file' = IF written THEN Append(stdout_file, relay_line)
                                   ELSE stdout_file
                 /\ last_write_err' = ~written
            /\ relay_pc' = IF sender_to_forward_to = "none" THEN "recv" ELSE "forward"
            /\ UNCHANGED <<channel, stdout_receiver>>
    /\ StreamFrame
    /\ UNCHANGED <<fwd, emitted, received, relay_line, sender_to_forward_to,
                   relay_receiver, relayed>>

\* Relay_Forward that never sends the line on.
Relay_Forward_NoSend ==
    /\ relay_pc = "forward"
    /\ relay_pc' = "recv"
    /\ StreamFrame
    /\ UNCHANGED <<fwd, emitted, channel, stdout_receiver, received, relay_line,
                   stdout_file, last_write_err, sender_to_forward_to, relay_receiver,
                   relayed>>

\* sender.send(line).await, lines 297-301: the line, with its newline, goes
\* to the relay sink; an Err (the sink is closed) is logged and the loop
\* goes on. relayed is what the sink has accepted.
Relay_Forward ==
    /\ relay_pc = "forward"
    /\ relayed' = IF relay_receiver = "open" THEN Append(relayed, relay_line) ELSE relayed
    /\ relay_pc' = "recv"
    /\ StreamFrame
    /\ UNCHANGED <<fwd, emitted, channel, stdout_receiver, received, relay_line,
                   stdout_file, last_write_err, sender_to_forward_to, relay_receiver>>

\* The caller drops the Receiver of the relay sink.
RelaySink_Close ==
    /\ relay_receiver = "open"
    /\ relay_receiver' = "closed"
    /\ StreamFrame
    /\ UNCHANGED <<fwd, emitted, channel, stdout_receiver, received, relay_pc, relay_line,
                   stdout_file, last_write_err, sender_to_forward_to, relayed>>

\* install, lines 197-232: the file and the channel of the stream exist, the
\* relay task is spawned and the Sender of the channel is in the arguments of
\* the run that is about to be called; the caller has supplied a relay sink
\* or not.
StreamInit ==
    /\ platform = "linux"
    /\ program = "present"
    /\ ProcessNew
    /\ NoInstaller
    /\ stdout_sender = "args"
    /\ emitted = <<>>
    /\ lines_read = 0
    /\ fwd_pc = "none"
    /\ fwd_line = NoLine
    /\ channel = <<>>
    /\ stdout_receiver = "open"
    /\ received = <<>>
    /\ relay_pc = "recv"
    /\ relay_line = NoLine
    /\ stdout_file = <<>>
    /\ last_write_err = FALSE
    /\ sender_to_forward_to \in {"none", "installer"}
    /\ relay_receiver = IF sender_to_forward_to = "none" THEN "closed" ELSE "open"
    /\ relayed = <<>>
    /\ NoRemoval
    /\ NoSharedSink

\* The run of the Process up to the child's own end, with the stream.
StreamNext ==
    \/ Run_Start
    \/ Run_SetRunning
    \/ Select_ChildExited
    \/ SetStatusOnExitStatus
    \/ Run_Return
    \/ Child_Exit
    \/ Child_Emit
    \/ Forward_NextLine
    \/ Forward_Send
    \/ Relay_Recv
    \/ Relay_Write
    \/ Relay_Forward
    \/ RelaySink_Close

StreamSpec == StreamInit /\ [][StreamNext]_vars

----------------------------------------------------------------------------
(* A Process run with a stdout sink whose Receiver the caller keeps and     *)
(* never reads, and a controller that cancels it.                           *)

\* Process::new, lines 198-224, and the arguments of run: the Sender of a
\* channel of ChannelCapacity lines; nothing receives from it.
UndrainedInit ==
    /\ platform \in Platforms
    /\ program = "present"
    /\ ProcessNew
    /\ NoInstaller
    /\ stdout_sender = "args"
    /\ emitted = <<>>
    /\ lines_read = 0
    /\ fwd_pc = "none"
    /\ fwd_line = NoLine
    /\ channel = <<>>
    /\ stdout_receiver = "open"
    /\ received = <<>>
    /\ relay_pc = "none"
    /\ relay_line = NoLine
    /\ stdout_file = <<>>
    /\ last_write_err = FALSE
    /\ sender_to_forward_to = "none"
    /\ relay_receiver = "closed"
    /\ relayed = <<>>
    /\ NoRemoval
    /\ NoSharedSink

UndrainedNext ==
    \/ Run_Start
    \/ Run_SetRunning
    \/ Select_CancelReceived
    \/ Select_ChildExited
    \/ KillAndWait_TryWait
    \/ KillAndWait_Kill
    \/ KillAndWait_Killed
    \/ KillAndWait_Wait
    \/ SetStatusOnExitStatus
    \/ Run_Return
    \/ Child_Exit
    \/ Child_Emit
    \/ Forward_NextLine
    \/ Forward_Send
    \/ Cancel_Precheck
    \/ Cancel_Send
    \/ Cancel_Receive

\* The runtime polls the futures of run and of cancel when they are ready: a
\* step of either that stays enabled is eventually taken. Nothing is assumed
\* of the child, of the forwarder or of the caller.
UndrainedSpec ==
    /\ UndrainedInit
    /\ [][UndrainedNext]_vars
    /\ WF_vars(RunStep)
    /\ WF_vars(Cancel_Receive)

----------------------------------------------------------------------------
(* util.rs: remove_dir_all_with_max_attempts_and_delay                      *)

\* The largest max_attempts a call is followed with.
MaxBudget == 4

\* The kinds of IoError fs::remove_dir_all is followed with.
RemoveErrors == {"PermissionDenied", "DirectoryNotEmpty"}

\* Result<Vec<IoError>, MaxAttemptsExceeded>: Ok(errors) or
\* Err(MaxAttemptsExceeded(errors)).
RemoveResult(res, errs) == [res |-> res, errors |-> errs]

\* What a step of the function leaves alone.
RemoveFrame == UNCHANGED <<env, inst, single, stream, shared>>

\* One turn of the for loop taken one time too many (0..=max_attempts).
Remove_Attempt_OneMore ==
    /\ rm_pc = "loop"
    /\ rm_i <= max_attempts
    /\ rm_i' = rm_i + 1
    /\ \E r \in {"Ok"} \cup RemoveErrors :
         /\ removals' = Append(removals, r)
         /\ IF r = "Ok"
            THEN /\ rm_result' = RemoveResult("Ok", errors)
                 /\ rm_pc' = "returned"
                 /\ UNCHANGED errors
            ELSE /\ errors' = Append(errors, r)
                 /\ rm_pc' = "sleep"
                 /\ UNCHANGED rm_result
    /\ UNCHANGED max_attempts
    /\ RemoveFrame

\* One turn of `for _ in 0..max_attempts`, lines 16-22: fs::remove_dir_all
\* returns Ok and the function returns Ok(errors), or it returns an error,
\* which is pushed.
Remove_Attempt ==
    /\ rm_pc = "loop"
    /\ rm_i < max_attempts
    /\ rm_i' = rm_i + 1
    /\ \E r \in {"Ok"} \cup RemoveErrors :
         /\ removals' = Append(removals, r)
         /\ IF r = "Ok"
            THEN /\ rm_result' = RemoveResult("Ok", errors)
                 /\ rm_pc' = "returned"
                 /\ UNCHANGED errors
            ELSE /\ errors' = Append(errors, r)
                 /\ rm_pc' = "sleep"
                 /\ UNCHANGED rm_result
    /\ UNCHANGED max_attempts
    /\ RemoveFrame

\* tokio::time::sleep(delay).await, line 23, is over.
Remove_Sleep ==
    /\ rm_pc = "sleep"
    /\ rm_pc' = "loop"
    /\ UNCHANGED <<max_attempts, errors, rm_i, removals, rm_result>>
    /\ RemoveFrame

\* The range is exhausted, line 28: Err(MaxAttemptsExceeded(errors)).
Remove_Exhausted ==
    /\ rm_pc = "loop"
    /\ rm_i >= max_attempts
    /\ rm_result' = RemoveResult("MaxAttemptsExceeded", errors)
    /\ rm_pc' = "returned"
    /\ UNCHANGED <<max_attempts, errors, rm_i, removals>>
    /\ RemoveFrame

\* The call, lines 9-15: max_attempts is any u16 up to MaxBudget and errors
\* is Vec::new().
RemoveInit ==
    /\ platform = "linux"
    /\ program = "present"
    /\ ProcessNew
    /\ NoInstaller
    /\ NoStreams
    /\ NoSharedSink
    /\ max_attempts \in 0..MaxBudget
    /\ errors = <<>>
    /\ rm_i = 0
    /\ rm_pc = "loop"
    /\ removals = <<>>
    /\ rm_result = RemoveResult("-", <<>>)

RemoveNext ==
    \/ Remove_Attempt
    \/ Remove_Sleep
    \/ Remove_Exhausted

\* The future of the function is polled until it returns, and the removal
\* and the sleep it awaits complete.
RemoveSpec == RemoveInit /\ [][RemoveNext]_vars /\ WF_vars(RemoveNext)

----------------------------------------------------------------------------
(* LocalProjectInstaller::install with a stdout relay sink: the venv phase  *)
(* and the requirements phase, each with its child's pipe, its forwarder,   *)
(* its channel and its relay task, and the one sink both relay tasks hold   *)
(* a clone of the Sender of.                                                *)

\* Line n of the stdout of the child of phase p.
PhaseLine(p, n) == [phase |-> p, n |-> n]

\* The relay task of a phase: not spawned, or at a position with its line.
RelayTask(pc, line) == [pc |-> pc, line |-> line]

\* What a step of the two streams leaves alone.
SharedFrame == UNCHANGED <<env, inst, single, stream, removal>>

\* The child of the phase whose run install awaits writes one more line.
Shared_Emit(p) ==
    /\ phase_at = p
    /\ produced[p] < MaxLines
    /\ produced' = [produced EXCEPT ![p] = @ + 1]
    /\ pipes' = [pipes EXCEPT ![p] = Append(@, PhaseLine(p, produced[p] + 1))]
    /\ UNCHANGED <<phase_at, channels, relay_tasks, relay_sink>>
    /\ SharedFrame

\* Shared_Forward reading the newest line of the pipe instead of the oldest.
Shared_Forward_TakesLast(p) ==
    /\ pipes[p] # <<>>
    /\ Len(channels[p]) < ChannelCapacity
    /\ channels' = [channels EXCEPT ![p] = Append(@, pipes[p][Len(pipes[p])])]
    /\ pipes' = [pipes EXCEPT ![p] = SubSeq(@, 1, Len(@) - 1)]
    /\ UNCHANGED <<phase_at, produced, relay_tasks, relay_sink>>
    /\ SharedFrame

\* Process::forward_io, process_2.rs lines 502-507: the forwarder of the
\* phase reads the next line of the pipe and, when the channel has room,
\* sends it.
Shared_Forward(p) ==
    /\ pipes[p] # <<>>
    /\ Len(channels[p]) < ChannelCapacity
    /\ channels' = [channels EXCEPT ![p] = Append(@, Head(pipes[p]))]
    /\ pipes' = [pipes EXCEPT ![p] = Tail(@)]
    /\ UNCHANGED <<phase_at, produced, relay_tasks, relay_sink>>
    /\ SharedFrame

\* do_forward_io_and_write_to_file, lines 291-296: the relay task of the
\* phase receives a line and writes it to the phase's file; an Err of
\* write_all ends the task and the line is not forwarded.
Shared_Recv(p) ==
    /\ relay_tasks[p].pc = "recv"
    /\ channels[p] # <<>>
    /\ channels' = [channels EXCEPT ![p] = Tail(@)]
    /\ \E written \in BOOLEAN :
         relay_tasks' = [relay_tasks EXCEPT ![p] =
             IF written THEN RelayTask("forward", Head(channels[p]))
             ELSE RelayTask("broken", NoLine)]
    /\ UNCHANGED <<phase_at, produced, pipes, relay_sink>>
    /\ SharedFrame

\* Lines 297-301: the line goes to the caller's sink, through the clone of
\* self.stdout_sender the task was given.
Shared_Send(p) ==
    /\ relay_tasks[p].pc = "forward"
    /\ relay_sink' = Append(relay_sink, relay_tasks[p].line)
    /\ relay_tasks' = [relay_tasks EXCEPT ![p] = RelayTask("recv", NoLine)]
    /\ UNCHANGED <<phase_at, produced, pipes, channels>>
    /\ SharedFrame

\* install, lines 234-269: the run of the phase returns, its child having
\* ended. After an Ok(()) of the venv phase the relay tasks of the
\* requirements phase are spawned (242-251) and its run is called (261); an
\* error, and the end of the requirements phase, end the installation.
Shared_PhaseReturns ==
    /\ phase_at \in Phases
    /\ \E ok \in BOOLEAN :
         IF phase_at = "venv" /\ ok
         THEN /\ phase_at' = "req"
              /\ relay_tasks' = [relay_tasks EXCEPT !["req"] = RelayTask("recv", NoLine)]
         ELSE /\ phase_at' = "done"
              /\ UNCHANGED relay_tasks
    /\ UNCHANGED <<produced, pipes, channels, relay_sink>>
    /\ SharedFrame

\* install, lines 204-234: the channels exist, the relay tasks of the venv
\* phase are spawned and venv_process.run is called.
SharedInit ==
    /\ platform = "linux"
    /\ program = "present"
    /\ ProcessNew
    /\ NoInstaller
    /\ NoStreams
    /\ NoRemoval
    /\ phase_at = "venv"
    /\ produced = [p \in Phases |-> 0]
    /\ pipes = [p \in Phases |-> <<>>]
    /\ channels = [p \in Phases |-> <<>>]
    /\ relay_tasks = [p \in Phases |->
           IF p = "venv" THEN RelayTask("recv", NoLine) ELSE RelayTask("none", NoLine)]
    /\ relay_sink = <<>>

SharedNext ==
    \/ \E p \in Phases : Shared_Emit(p)
    \/ \E p \in Phases : Shared_Forward(p)
    \/ \E p \in Phases : Shared_Recv(p)
    \/ \E p \in Phases : Shared_Send(p)
    \/ Shared_PhaseReturns

SharedSpec == SharedInit /\ [][SharedNext]_vars

----------------------------------------------------------------------------
(* The claims.                                                             *)

KillAndWaitErrors == {"CouldNotCheckStatus", "CouldNotKillProcess", "CouldNotWaitForProcess"}

\* One edge of the transition graph Created -> Running -> Terminated(_).
StatusStepAllowed(s, t) ==
    \/ s = t
    \/ s = Created /\ t = Running
    \/ s = Running /\ t.tag = "Terminated"

\* t is s or comes after s in that graph.
StatusReachable(s, t) ==
    \/ s = t
    \/ s = Created
    \/ s = Running /\ t.tag = "Terminated"

\* C1: every step leaves the Status alone or moves it Created -> Running or
\* Running -> Terminated(_) (never backwards, never Created -> Terminated,
\* never away from a Terminated(x)), and each ProcessController::status read
\* returns the value of the read before it or one that comes after it.
C1_StatusMonotonic ==
    [][ /\ StatusStepAllowed(status, status')
        /\ StatusReachable(lastRead, lastRead') ]_vars

\* C1 witness: a read returned Running and the Status has since been
\* overwritten with Terminated(_).
C1_Witness == lastRead = Running /\ status.tag = "Terminated"

\* C2 as stated: every Ok(status) that run returned carries Terminated(_), and
\* the Status cell (what ProcessController::status returns) still equals it.
C2_Original ==
    \A i \in 1..Len(runResults) :
        runResults[i].res = "Ok" =>
            /\ runResults[i].status.tag = "Terminated"
            /\ status = runResults[i].status

\* C2 amended: every Ok(status) that run returned is still the value of the
\* Status cell; it is Terminated(_), or it is Running and run had received a
\* cancel request whose try-reap, kill or wait failed and sent that error to
\* the controller.
C2_RunOkStatus ==
    \A i \in 1..Len(runResults) :
        runResults[i].res = "Ok" =>
            /\ status = runResults[i].status
            /\ \/ status.tag = "Terminated"
               \/ status = Running /\ path = "cancel" /\ respMsg \in KillAndWaitErrors

\* C2 witness: run returned Ok(Running) after a failed kill on the cancel
\* path, cancel returned the error, and a status read returned Running.
C2_Witness ==
    /\ \E i \in 1..Len(runResults) : runResults[i] = RunOk(Running)
    /\ \E j \in 1..Len(cancelResults) : cancelResults[j] = CancelOk("CouldNotKillProcess")
    /\ lastRead = Running
    /\ ctl_pc = "idle"

\* The exit status a child ended by Child::kill shows on this platform, as
\* the classification recognises it: no exit code on Linux, code 1 on Windows.
KillSignature ==
    \/ platform = "linux" /\ ~exitStatus.coded
    \/ platform = "windows" /\ exitStatus = ExitCode(1)

\* The termination status of an exit status that is not taken for a kill.
OwnTermination(es) ==
    IF ExitSuccess(es) THEN TerminatedSuccessfully
    ELSE IF es.coded THEN TerminatedWithErrorCode(es.code)
    ELSE TerminatedWithUnknownErrorCode

\* C3 as stated: whenever a cancel returned Ok(None), the Status is
\* Terminated(Killed(KilledByCancellationSignal)) and that is what run returned.
C3_Original ==
    \A j \in 1..Len(cancelResults) :
        cancelResults[j] = CancelOk("None") =>
            /\ status = Terminated(Killed("KilledByCancellationSignal"))
            /\ \A i \in 1..Len(runResults) :
                   runResults[i].res = "Ok" => runResults[i].status = status

\* C3 amended: whenever a cancel returned Ok(None), the Status is Terminated(t)
\* and the run that was cancelled returns Ok of exactly that Status (unless
\* its future is dropped first); t is Killed(KilledByCancellationSignal)
\* exactly when the library's kill succeeded and the exit status shows the
\* platform's kill signature, and otherwise t is the classification of the
\* child's own exit status (the child had exited by itself before the
\* try-reap or the kill reached it, or the platform is neither Linux nor
\* Windows).
C3_CancelOkNone ==
    \A j \in 1..Len(cancelResults) :
        cancelResults[j] = CancelOk("None") =>
            /\ status.tag = "Terminated"
            /\ IF child_killed_successfuly /\ KillSignature
               THEN status = Terminated(Killed("KilledByCancellationSignal"))
               ELSE status = Terminated(OwnTermination(exitStatus))
            /\ Len(runResults) >= 1 => runResults[1] \in {RunOk(status), RunAbandoned}

\* C3 witness: cancel returned Ok(None), the child was killed by the library
\* and run returned Ok(Terminated(Killed(KilledByCancellationSignal))).
C3_Witness ==
    /\ \E j \in 1..Len(cancelResults) : cancelResults[j] = CancelOk("None")
    /\ Len(runResults) >= 1
    /\ runResults[1] = RunOk(Terminated(Killed("KilledByCancellationSignal")))
    /\ kills = 1

\* C4 as stated: whenever cancel returned Ok, the child has been reaped and
\* the Status (what a later status read returns) is Terminated(_).
C4_Original ==
    \A j \in 1..Len(cancelResults) :
        cancelResults[j].res = "Ok" =>
            /\ osChild = "reaped"
            /\ status.tag = "Terminated"

\* C4 amended: whenever cancel returned Ok(None), the child has been reaped
\* and the Status is Terminated(_), so no later read returns Running;
\* whenever it returned Ok(Some(error)), try-reap, kill or wait had failed and
\* the Status is still Running.
C4_CancelSynchronous ==
    \A j \in 1..Len(cancelResults) :
        cancelResults[j].res = "Ok" =>
            IF cancelResults[j].payload = "None"
            THEN osChild = "reaped" /\ status.tag = "Terminated"
            ELSE cancelResults[j].payload \in KillAndWaitErrors /\ status = Running

\* C4 witness: cancel returned Ok(None) and a status read issued afterwards
\* returned Terminated(_).
C4_Witness ==
    /\ \E j \in 1..Len(cancelResults) : cancelResults[j] = CancelOk("None")
    /\ lastRead.tag = "Terminated"
    /\ osChild = "reaped"

\* The controller was dropped while the Status was Created or Running, and
\* cancel was never called on it.
DroppedWithoutCancel ==
    /\ ctlDroppedAt \in {"Created", "Running"}
    /\ cancelResults = <<>>

\* C5 as stated, for the runs that return Ok: after the controller was
\* dropped without cancel while the Process was Created or Running, run
\* returns Ok(Terminated(Killed(KilledByDroppingController))).
C5_Original ==
    DroppedWithoutCancel =>
        \A i \in 1..Len(runResults) :
            runResults[i].res = "Ok" =>
                runResults[i].status = Terminated(Killed("KilledByDroppingController"))

\* What run may have returned after such a drop.
C5_Outcomes ==
    DroppedWithoutCancel =>
        \A i \in 1..Len(runResults) :
            IF runResults[i].res = "Ok"
            THEN /\ runResults[i].status = status
                 /\ IF controller_dropped /\ child_killed_successfuly /\ KillSignature
                    THEN status = Terminated(Killed("KilledByDroppingController"))
                    ELSE status = Terminated(OwnTermination(exitStatus))
            ELSE runResults[i].res \in
                   {"CouldNotSpawnOsProcess", "CouldNotWaitForOsProcess",
                    "AlreayTriedToRun", "Abandoned"} \cup KillAndWaitErrors

\* C5 amended: after the controller was dropped without cancel while the
\* Process was Created or Running, a run in progress eventually returns
\* (unless its future is dropped first). It returns
\* Ok(Terminated(Killed(KilledByDroppingController))) exactly when it took the
\* closed-channel branch, its kill succeeded and the exit status shows the
\* platform's kill signature (no exit code on Linux, code 1 on Windows);
\* otherwise it returns Ok(Terminated(t)) with t the classification of the
\* child's own exit status, or the spawn, wait or kill-and-wait error.
C5_DroppedController ==
    /\ []C5_Outcomes
    /\ (DroppedWithoutCancel /\ proc_pc \notin {"idle", "dropped"})
           ~> (proc_pc \in {"idle", "dropped"})

\* C5 witness: the controller was dropped while the Process was Running,
\* cancel was never called, and run returned
\* Ok(Terminated(Killed(KilledByDroppingController))).
C5_Witness ==
    /\ ctlDroppedAt = "Running"
    /\ cancelResults = <<>>
    /\ Len(runResults) = 1
    /\ runResults[1] = RunOk(Terminated(Killed("KilledByDroppingController")))

\* This step is a call of cancel: the controller's owner leaves "idle" for
\* the send, or the call returns within the step.
CancelCallStep ==
    /\ ctl_pc = "idle"
    /\ ctl_pc' = "send" \/ Len(cancelResults') > Len(cancelResults)

\* This step is a call of run.
RunCallStep ==
    /\ proc_pc = "idle"
    /\ proc_pc' = "spawned" \/ Len(runResults') > Len(runResults)

\* C6: a cancel called while the Status is Created returns
\* Err(ProcessNotRunning) at once; the request channel, both ends the
\* controller holds and the Status are left as they were. The Process may have
\* been dropped before it was run.
C6_CancelWhileCreated ==
    [][ (status = Created /\ CancelCallStep) =>
            /\ cancelResults' = Append(cancelResults, CancelErr("ProcessNotRunning", FALSE))
            /\ ctl_pc' = "idle"
            /\ UNCHANGED <<reqMsg, cancel_channel_sender, cancel_status_channel_receiver,
                           status>> ]_vars

\* C6 witness: the Process was dropped without having been run, and cancel
\* returned Err(ProcessNotRunning) with nothing sent.
C6_Witness ==
    /\ proc_pc = "dropped"
    /\ runResults = <<>>
    /\ \E j \in 1..Len(cancelResults) : cancelResults[j].res = "ProcessNotRunning"
    /\ reqMsg = "empty"
    /\ cancel_channel_sender = "controller"

\* C7: once the Status is Terminated(_), a cancel returns Err(ProcessTerminated)
\* from its pre-check, sends nothing and changes no result of run; and from then
\* on run issues no kill and the Status stays what it is. The Process may have
\* been dropped.
C7_CancelAfterTermination ==
    [][ /\ status.tag = "Terminated" => kills' = kills /\ status' = status
        /\ (status.tag = "Terminated" /\ CancelCallStep) =>
               /\ cancelResults' = Append(cancelResults, CancelErr("ProcessTerminated", FALSE))
               /\ UNCHANGED <<runResults, reqMsg, osChild>> ]_vars

\* C7 witness: the child ended by itself, run returned
\* Ok(Terminated(TerminatedSuccessfully)), the Process was dropped, and cancel
\* then returned Err(ProcessTerminated); no kill was issued.
C7_Witness ==
    /\ proc_pc = "dropped"
    /\ runResults = <<RunOk(Terminated(TerminatedSuccessfully))>>
    /\ status = Terminated(TerminatedSuccessfully)
    /\ cancelResults = <<CancelErr("ProcessTerminated", FALSE)>>
    /\ kills = 0

\* C8 as stated: the cancel that follows a cancel that returned Ok returns
\* Err(ProcessTerminated).
C8_Original ==
    \A j \in 1..(Len(cancelResults) - 1) :
        cancelResults[j].res = "Ok" => cancelResults[j + 1].res = "ProcessTerminated"

\* C8 amended: after a cancel returned Ok, the one request has been sent and
\* received and no further one is sent; the next cancel returns
\* Err(ProcessTerminated) if the first returned Ok(None), and
\* Err(AlreayTriedToCancel) if it returned Ok(Some(error)), the Status being
\* still Running then.
C8_SecondCancel ==
    \A j \in 1..Len(cancelResults) :
        cancelResults[j].res = "Ok" =>
            /\ reqMsg = "received"
            /\ cancel_channel_sender = "sent"
            /\ j < Len(cancelResults) =>
                   cancelResults[j + 1].res =
                       IF cancelResults[j].payload = "None"
                       THEN "ProcessTerminated" ELSE "AlreayTriedToCancel"

\* C8 witness: cancel returned Ok(None) and the second cancel returned
\* Err(ProcessTerminated).
C8_Witness ==
    cancelResults = <<CancelOk("None"), CancelErr("ProcessTerminated", FALSE)>>

\* C9 as stated: the cancel that follows a cancel which passed the pre-check
\* returns Err(AlreayTriedToCancel).
C9_Original ==
    \A j \in 1..(Len(cancelResults) - 1) :
        cancelResults[j].pre => cancelResults[j + 1].res = "AlreayTriedToCancel"

\* C9 amended: the cancel that follows a cancel which passed the pre-check
\* returns Err(AlreayTriedToCancel) if the Status is still Running when it is
\* called (it passes the pre-check itself), and Err(ProcessTerminated) from
\* the pre-check if the Status is Terminated(_) by then.
C9_SecondCancelAfterPrecheck ==
    \A j \in 1..(Len(cancelResults) - 1) :
        cancelResults[j].pre =>
            cancelResults[j + 1] =
                IF cancelResults[j + 1].pre
                THEN CancelErr("AlreayTriedToCancel", TRUE)
                ELSE CancelErr("ProcessTerminated", FALSE)

\* C9 witness: the first cancel found the Status Running and returned
\* Ok(Some(CouldNotKillProcess)); the second returned Err(AlreayTriedToCancel).
C9_Witness ==
    cancelResults = <<CancelOk("CouldNotKillProcess"), CancelErr("AlreayTriedToCancel", TRUE)>>

\* C10: every call of run after the first one returns Err(AlreayTriedToRun)
\* at once, whatever the first call did, and leaves the Status, the stored
\* child and the OS child as they were.
C10_RunSingleShot ==
    [][ (Len(runResults) >= 1 /\ RunCallStep) =>
            /\ runResults' = Append(runResults, RunErr("AlreayTriedToRun"))
            /\ proc_pc' = "idle"
            /\ UNCHANGED <<status, child, osChild, exitStatus>> ]_vars

\* C10 witness: the first run returned Ok and the second Err(AlreayTriedToRun).
C10_Witness ==
    /\ Len(runResults) = 2
    /\ runResults[1].res = "Ok"
    /\ runResults[2] = RunErr("AlreayTriedToRun")
    /\ child

\* C11: the Status leaves Created only once Command::spawn has produced a
\* child; and a run that returned Err(CouldNotSpawnOsProcess(io)) was the
\* first call, io is the IoError of the spawn (NotFound when the program is
\* absent), no child is stored or alive, and the Status is Created in every
\* later state, whatever is called afterwards.
C11_SpawnFailure ==
    /\ status # Created => osChild # "none"
    /\ \A i \in 1..Len(runResults) :
           runResults[i].res = "CouldNotSpawnOsProcess" =>
               /\ i = 1
               /\ runResults[i].io \in SpawnOutcomes(program) \ {"spawned"}
               /\ program = "absent" => runResults[i].io = "NotFound"
               /\ ~child
               /\ osChild = "none"
               /\ status = Created

\* C11 witness: the program is absent, run returned
\* Err(CouldNotSpawnOsProcess(NotFound)), and afterwards a second run was
\* refused, a cancel returned Err(ProcessNotRunning) and the Status is Created.
C11_Witness ==
    /\ program = "absent"
    /\ runResults = <<RunSpawnErr("NotFound"), RunErr("AlreayTriedToRun")>>
    /\ \E j \in 1..Len(cancelResults) : cancelResults[j].res = "ProcessNotRunning"
    /\ status = Created

\* C12: whenever the Status is Terminated(_), the child has been reaped: a
\* try_wait or a wait on it has returned its exit status.
C12_TerminatedImpliesReaped ==
    status.tag = "Terminated" => osChild = "reaped" /\ exitStatus # NoExit

\* C12 witness: the library killed the child, waited for it, and the Status
\* is Terminated(Killed(_)).
C12_Witness ==
    /\ status.tag = "Terminated"
    /\ status.term = "Killed"
    /\ kills = 1
    /\ osChild = "reaped"

\* tokio::process exists for unix and windows: every platform but windows is POSIX.
Posix(plat) == plat # "windows"

\* The termination status as the claim tabulates it, with `signalKill` the
\* platforms where an absent exit code with the bit set means Killed.
ClaimedTerminationStatus(es, killed, dropped, plat, signalKill) ==
    CASE es.coded /\ es.code = 0 -> TerminatedSuccessfully
      [] es.coded /\ es.code = 1 /\ plat = "windows" /\ killed ->
             Killed(IF dropped THEN "KilledByDroppingController"
                    ELSE "KilledByCancellationSignal")
      [] ~es.coded /\ plat \in signalKill /\ killed ->
             Killed(IF dropped THEN "KilledByDroppingController"
                    ELSE "KilledByCancellationSignal")
      [] OTHER -> IF es.coded THEN TerminatedWithErrorCode(es.code)
                  ELSE TerminatedWithUnknownErrorCode

\* C13 as stated: a Terminated Status carries the tabulated termination status
\* of the child's exit status, an absent exit code with the bit set being
\* Killed on every POSIX platform.
C13_Original ==
    status.tag = "Terminated" =>
        status = Terminated(ClaimedTerminationStatus(
                     exitStatus, child_killed_successfuly, controller_dropped, platform,
                     {p \in Platforms : Posix(p)}))

\* C13 amended: a Terminated Status carries the tabulated termination status
\* of the child's exit status, an absent exit code with the bit set being
\* Killed on Linux only (on another POSIX platform it is
\* TerminatedWithUnknownErrorCode).
C13_TerminationStatus ==
    status.tag = "Terminated" =>
        status = Terminated(ClaimedTerminationStatus(
                     exitStatus, child_killed_successfuly, controller_dropped, platform,
                     {"linux"}))

\* C13 witness: on Windows the controller was dropped, the library killed the
\* child, it exited with code 1 and the Status is
\* Terminated(Killed(KilledByDroppingController)).
C13_Witness ==
    /\ platform = "windows"
    /\ controller_dropped
    /\ child_killed_successfuly
    /\ exitStatus = ExitCode(1)
    /\ status = Terminated(Killed("KilledByDroppingController"))

\* The check met no I/O failure and its project-directory and requirements
\* checks passed: its result is that of the locust-directory check.
LocustDirDecides(r) ==
    /\ r.fault = NoFault
    /\ uploaded.exists
    /\ uploaded.requirements = "locust"

\* C20 as stated: for every listing of locust/, the locust-directory check
\* succeeds if and only if the directory exists, is not empty and at least
\* one of its entries has the extension py.
C20_Original ==
    \A i \in 1..Len(checkResults) :
        LocustDirDecides(checkResults[i]) =>
            (checkResults[i].result = CheckOk <=>
                /\ uploaded.locust.exists
                /\ uploaded.locust.entries # <<>>
                /\ \E k \in 1..Len(uploaded.locust.entries) :
                       uploaded.locust.entries[k] = "py")

\* The result of the install call that has just returned.
Returned == installResults'[Len(installResults')]

\* The run of pair p has returned and has left its child unreaped.
Unreaped(p) == processes[p].pc = "idle" /\ processes[p].osChild \in {"alive", "exited"}

\* A run of pair p returns on this step anything but
\* Ok(Terminated(TerminatedSuccessfully)).
PhaseFails(p) ==
    /\ Len(processes'[p].results) > Len(processes[p].results)
    /\ processes'[p].results[Len(processes'[p].results)] # RunOk(Terminated(TerminatedSuccessfully))

\* C14 as stated: every install that returned an error of a phase had run
\* the clean-up, and if it returned ErrorThatTriggersCleanUp then
\* project_env_dir did not exist at the moment it returned.
C14_Original ==
    \A i \in 1..Len(installResults) :
        /\ installResults[i].error # NoError => installResults[i].cleaned
        /\ installResults[i].res = "ErrorThatTriggersCleanUp" => ~installResults[i].env

\* C14 amended: a phase that ends with a run error or with a status other
\* than Terminated(TerminatedSuccessfully) leads to the clean-up, install
\* returns the error of a phase only out of the clean-up, and a clean-up that
\* returns Ok found project_env_dir absent or removed it; when install
\* returns ErrorThatTriggersCleanUp, project_env_dir exists only if a child
\* that a run left unreaped (its status check, kill or wait failed) has
\* created it again since.
C14_CleanUpBeforeReturn ==
    [][ /\ \A p \in Phases : PhaseFails(p) => inst_pc' = "cleanup"
        /\ (inst_pc # "cleaned" /\ inst_pc' = "cleaned") =>
               inst_pc \in {"cleanup", "remove"} /\ ~project_env_dir'
        /\ Len(installResults') > Len(installResults) =>
               /\ Returned.error # NoError =>
                      inst_pc \in {"cleanup", "remove", "cleaned"} /\ Returned.cleaned
               /\ Returned.res = "ErrorThatTriggersCleanUp" =>
                      /\ inst_pc = "cleaned"
                      /\ Returned.env = project_env_dir'
                      /\ project_env_dir' => \E p \in Phases : Unreaped(p) ]_vars

\* C14 witness: the requirements phase ended with an error code, the
\* clean-up removed project_env_dir (it had existed since before the call or
\* the venv child had created it) and install returned
\* ErrorThatTriggersCleanUp with the directory absent.
C14_Witness ==
    /\ Len(installResults) = 1
    /\ installResults[1].res = "ErrorThatTriggersCleanUp"
    /\ installResults[1].error.variant = "RequirementsInstallError"
    /\ installResults[1].error.sub = "TerminatedWithError"
    /\ installResults[1].cleaned
    /\ ~installResults[1].env
    /\ ~project_env_dir
    /\ processes["venv"].osChild = "reaped"
    /\ processes["req"].osChild = "reaped"

\* The errors check_and_install returns before it reaches the venv run.
StartFailures ==
    {"CheckError", "FailedToConvertPathBufToString", "VenvStartError", "RequirementsStartError"}

\* C15: a check_and_install that returns CheckError, the path-conversion
\* error, VenvStartError or RequirementsStartError returns it at once: no
\* run was started and no child spawned (neither pair changes, and on the
\* first call both are still Created without a child), clean-up is not run and
\* project_env_dir is as it was.
C15_StartErrorsReturnAtOnce ==
    [][ (Len(installResults') > Len(installResults) /\ Returned.res \in StartFailures) =>
            /\ inst_pc = "idle"
            /\ processes' = processes
            /\ Len(installResults) = 0 =>
                   \A p \in Phases : /\ processes'[p].status = Created
                                     /\ processes'[p].osChild = "none"
            /\ ~Returned.cleaned
            /\ project_env_dir' = project_env_dir ]_vars

\* C15 witness: the creation of the third output file failed on the first
\* call while project_env_dir existed: RequirementsStartError was returned,
\* no clean-up ran, the directory is still there and both pairs are Created.
C15_Witness ==
    /\ Len(installResults) = 1
    /\ installResults[1].res = "RequirementsStartError"
    /\ ~installResults[1].cleaned
    /\ installResults[1].env
    /\ project_env_dir
    /\ ioFiles = 2
    /\ \A p \in Phases : processes[p].status = Created /\ processes[p].osChild = "none"

\* The sub-kind of VenvInstallError / RequirementsInstallError that matches
\* what a run returned.
SubKind(result) ==
    IF result.res # "Ok" THEN "RunError"
    ELSE IF result.status.tag # "Terminated" THEN "UnexpectedStatus"
    ELSE result.status.term

\* What the run of pair p returns on this step.
PhaseResult(p) == processes'[p].results[Len(processes'[p].results)]

\* The run of pair p returns on this step.
PhaseEnds(p) == Len(processes'[p].results) > Len(processes[p].results)

PhaseOk == RunOk(Terminated(TerminatedSuccessfully))

\* C16: the requirements run is reached only by the step on which the venv run
\* returns Ok(Terminated(TerminatedSuccessfully)), and the requirements pair
\* moves only inside that run; any other venv result is kept as
\* VenvInstallError of the matching sub-kind (Killed, TerminatedWithError,
\* UnexpectedStatus, RunError) and leads to the clean-up, not to phase 2;
\* install returns Ok(()) only on the step on which the requirements run returns
\* Ok(Terminated(TerminatedSuccessfully)), the venv run having returned the same.
C16_PhaseOrder ==
    [][ /\ (inst_pc # "req_run" /\ inst_pc' = "req_run") =>
               PhaseEnds("venv") /\ PhaseResult("venv") = PhaseOk
        /\ (processes'["req"].pc # processes["req"].pc
               \/ processes'["req"].osChild # processes["req"].osChild) =>
               \/ inst_pc = "req_run"
               \/ processes["req"].osChild = "alive" /\ processes["req"].pc = "idle"
        /\ (processes["req"].osChild = "none" /\ processes'["req"].osChild # "none") =>
               /\ inst_pc = "req_run"
               /\ processes["venv"].results # <<>>
               /\ processes["venv"].results[Len(processes["venv"].results)] = PhaseOk
        /\ (PhaseEnds("venv") /\ PhaseResult("venv") # PhaseOk) =>
               /\ inst_pc' = "cleanup"
               /\ pending' = TriggersCleanUp("VenvInstallError",
                                             SubKind(PhaseResult("venv")), PhaseResult("venv"))
               /\ processes'["req"] = processes["req"]
        /\ (Len(installResults') > Len(installResults) /\ Returned.res = "Ok") =>
               /\ PhaseEnds("req") /\ PhaseResult("req") = PhaseOk
               /\ processes["venv"].results[Len(processes["venv"].results)] = PhaseOk ]_vars

\* C16 witness: the venv run was cancelled and returned
\* Ok(Terminated(Killed(_))), install returned VenvInstallError(Killed(_))
\* and the requirements pair is still Created, without a child and without a
\* run.
C16_Witness ==
    /\ Len(installResults) = 1
    /\ installResults[1].error.variant = "VenvInstallError"
    /\ installResults[1].error.sub = "Killed"
    /\ installResults[1].error.of = RunOk(Terminated(Killed("KilledByCancellationSignal")))
    /\ processes["req"] = PairNew

\* The pair whose run an ErrorThatTriggersCleanUp names.
PhaseOf(error) == IF error.variant = "VenvInstallError" THEN "venv" ELSE "req"

\* The last result of the run of pair p.
LastResult(p) == processes[p].results[Len(processes[p].results)]

\* The error of the phase that led install into the clean-up it is in.
PhaseError(p) == TriggersCleanUp(Variant(p), SubKind(LastResult(p)), LastResult(p))

\* C17: install leaves the clean-up with an error whose first component is
\* exactly the error of the phase that triggered it: when the existence
\* check fails (the only return straight from the check) or the removal has
\* used up its attempts, it returns CleanUpError(original, cleanup) with
\* cleanup naming that failure, and otherwise ErrorThatTriggersCleanUp(original).
C17_OriginalErrorKept ==
    [][ (Len(installResults') > Len(installResults)
             /\ inst_pc \in {"cleanup", "remove", "cleaned"}) =>
            /\ Returned.error # NoError
            /\ Returned.error = pending
            /\ Returned.error = PhaseError(PhaseOf(Returned.error))
            /\ LastResult(PhaseOf(Returned.error)) # PhaseOk
            /\ inst_pc = "cleanup" =>
                   Returned.res = "CleanUpError" /\ Returned.cleanup = "CouldNotCheckIfDirExists"
            /\ inst_pc = "remove" =>
                   /\ attempts = MaxAttempts
                   /\ Returned.res = "CleanUpError"
                   /\ Returned.cleanup = "MaxAttemptsExceeded"
            /\ inst_pc = "cleaned" =>
                   Returned.res = "ErrorThatTriggersCleanUp" /\ Returned.cleanup = "-" ]_vars

\* C17 witness: the requirements child ended with exit code 1, the five
\* attempts to remove project_env_dir failed and install returned
\* CleanUpError(RequirementsInstallError(TerminatedWithError(_)),
\* MaxAttemptsExceeded); the directory is still there.
C17_Witness ==
    /\ Len(installResults) = 1
    /\ installResults[1].res = "CleanUpError"
    /\ installResults[1].cleanup = "MaxAttemptsExceeded"
    /\ installResults[1].error =
           TriggersCleanUp("RequirementsInstallError", "TerminatedWithError",
                           RunOk(Terminated(TerminatedWithErrorCode(1))))
    /\ project_env_dir

\* The positions of the installer controller inside the cancel of pair p.
CancelPcs(p) == IF p = "venv" THEN {"idle", "venv_send", "venv_await"}
                ELSE {"req_pre", "req_send", "req_await"}

\* The ends of the channels of pair p that its controller holds, and the
\* request slot it writes.
ControllerEnds(r) == <<r.cancel_channel_sender, r.cancel_status_channel_receiver, r.reqMsg>>

\* ProcessController::cancel of the venv pair is about to return
\* Err(ProcessTerminated): from the status pre-check, from a send that finds
\* the request Receiver gone, or from a response Sender dropped without a
\* response.
VenvCancelFindsTerminated ==
    LET r == processes["venv"] IN
    \/ ictl_pc = "idle" /\ r.status.tag = "Terminated"
    \/ /\ ictl_pc = "venv_send"
       /\ r.cancel_channel_sender = "controller"
       /\ r.cancel_status_channel_receiver = "controller"
       /\ r.cancel_channel_receiver = "dropped"
    \/ /\ ictl_pc = "venv_await"
       /\ r.respMsg = "empty"
       /\ r.cancel_status_channel_sender = "dropped"

\* The result of the LocalProjectInstallerController::cancel that has just returned.
CancelReturned == icancelResults'[Len(icancelResults')]

\* C18: a cancel starts with the venv pair; it goes on to the requirements
\* pair only when the venv cancel returns Err(ProcessTerminated), and touches
\* the requirements controller nowhere else; any other error of the venv
\* cancel is returned as VenvCancellationError, an error of the requirements
\* cancel as ReqCancellationError, and a kill-and-wait error carries the tag
\* of the pair whose run sent it.
C18_VenvThenReq ==
    [][ /\ (ictl_pc = "idle" /\ ictl_pc' \notin {"idle", "dropped"}) =>
               ictl_pc' \in {"venv_send", "req_pre"}
        /\ (ictl_pc # "req_pre" /\ ictl_pc' = "req_pre") =>
               ictl_pc \in CancelPcs("venv") /\ VenvCancelFindsTerminated
        /\ ControllerEnds(processes'["req"]) # ControllerEnds(processes["req"]) =>
               ictl_pc \in CancelPcs("req") \/ ictl_pc' = "dropped"
        /\ Len(icancelResults') > Len(icancelResults) =>
               /\ CancelReturned.res = "VenvCancellationError" =>
                      /\ ictl_pc \in CancelPcs("venv")
                      /\ CancelReturned.err \notin {"ProcessTerminated", "-"}
                      /\ processes'["req"] = processes["req"]
               /\ CancelReturned.res = "ReqCancellationError" =>
                      ictl_pc \in CancelPcs("req") /\ CancelReturned.err # "-"
               /\ VenvCancelFindsTerminated => CancelReturned.res # "VenvCancellationError"
               /\ CancelReturned.res = "Ok" =>
                      /\ ictl_pc = AwaitPc(CancelReturned.of)
                      /\ CancelReturned.payload = processes[CancelReturned.of].respMsg
                      /\ CancelReturned.payload \in KillAndWaitErrors \cup {"None"} ]_vars

\* C18 witness: the venv run had ended, the cancel went on to the
\* requirements pair, whose kill failed, and returned
\* Ok(Some(ReqKillAndWaitError(CouldNotKillProcess))).
C18_Witness ==
    /\ icancelResults = <<InstallerCancelResult("Ok", "req", "CouldNotKillProcess", "-")>>
    /\ processes["venv"].status = Terminated(TerminatedSuccessfully)
    /\ ControllerEnds(processes["venv"])[3] = "empty"
    /\ processes["req"].respMsg = "CouldNotKillProcess"

\* The pairs whose cancel returned Ok(None) to the installer controller.
CancelledPairs ==
    {p \in Phases : \E j \in 1..Len(icancelResults) :
                        icancelResults[j] = InstallerCancelResult("Ok", p, "None", "-")}

\* The calls that reached the venv run.
RunCalls == {i \in 1..Len(installResults) : installResults[i].res \notin StartFailures}

\* The first of them: the call in which the pairs ran.
FirstRunCall == CHOOSE i \in RunCalls : \A k \in RunCalls : i <= k

\* As KillSignature, of the child of pair p.
PairKillSignature(p) ==
    \/ platform = "linux" /\ ~processes[p].exitStatus.coded
    \/ platform = "windows" /\ processes[p].exitStatus = ExitCode(1)

\* C19 as stated: whenever a cancel returned Ok(None) and the call that ran
\* the pairs has returned, it returned ErrorThatTriggersCleanUp with
\* VenvInstallError(Killed(_)) or RequirementsInstallError(Killed(_)) and
\* project_env_dir did not exist.
C19_Original ==
    (CancelledPairs # {} /\ RunCalls # {}) =>
        /\ installResults[FirstRunCall].res = "ErrorThatTriggersCleanUp"
        /\ installResults[FirstRunCall].error.variant \in
               {"VenvInstallError", "RequirementsInstallError"}
        /\ installResults[FirstRunCall].error.sub = "Killed"
        /\ ~installResults[FirstRunCall].env

\* C19 amended: whenever a cancel returned Ok(None) for a pair, the child of
\* that pair has been reaped and its Status is Terminated(t), t being
\* Killed(KilledByCancellationSignal) exactly when the library's kill
\* succeeded and the exit status shows the kill signature of Linux or
\* Windows, and otherwise the classification of the child's own exit status.
\* When t is not TerminatedSuccessfully, the call returns that pair's
\* VenvInstallError / RequirementsInstallError of the sub-kind of t (Killed or
\* TerminatedWithError), as ErrorThatTriggersCleanUp with project_env_dir
\* absent, or inside CleanUpError when the clean-up failed. When t is
\* TerminatedSuccessfully, a cancelled requirements phase makes the call
\* return Ok(()) and a cancelled venv phase lets it go on to the requirements
\* phase.
C19_CancelledInstall ==
    \A p \in CancelledPairs :
        LET r == processes[p] IN
        /\ r.status.tag = "Terminated"
        /\ r.osChild = "reaped"
        /\ IF r.child_killed_successfuly /\ PairKillSignature(p)
           THEN r.status = Terminated(Killed("KilledByCancellationSignal"))
           ELSE r.status = Terminated(OwnTermination(r.exitStatus))
        /\ r.results # <<>> => r.results[1] = RunOk(r.status)
        /\ RunCalls # {} =>
               LET res == installResults[FirstRunCall] IN
               IF r.status # Terminated(TerminatedSuccessfully)
               THEN /\ res.error = TriggersCleanUp(Variant(p), r.status.term, RunOk(r.status))
                    /\ res.res \in {"ErrorThatTriggersCleanUp", "CleanUpError"}
                    /\ res.res = "ErrorThatTriggersCleanUp" => ~res.env
               ELSE /\ p = "req" => res.res = "Ok"
                    /\ p = "venv" => res.error.variant # "VenvInstallError"

\* C19 witness: the requirements phase was cancelled, the cancel returned
\* Ok(None), the child was killed and check_and_install returned
\* ErrorThatTriggersCleanUp(RequirementsInstallError(Killed(_))) with
\* project_env_dir removed.
C19_Witness ==
    /\ CancelledPairs = {"req"}
    /\ processes["req"].kills = 1
    /\ Len(installResults) = 1
    /\ installResults[1].res = "ErrorThatTriggersCleanUp"
    /\ installResults[1].error =
           TriggersCleanUp("RequirementsInstallError", "Killed",
                           RunOk(Terminated(Killed("KilledByCancellationSignal"))))
    /\ ~project_env_dir

----------------------------------------------------------------------------
(* Claims C21..C30                                                          *)

\* The errors of check that carry the IoError of a failed fs call.
CheckIoErrors ==
    {"CouldNotCheckIfProjectDirExists", "CouldNotCheckIfProjectDirIsEmpty",
     "CouldNotCheckIfRequirementsTxtExists", "CouldNotReadRequirementsTxt",
     "CouldNotCheckIfLocustDirExists", "CouldNotCheckIfLocustDirIsEmpty",
     "CouldNotIterateOverLocustDir"}

\* What the fs calls of the check of one category are made on.
FaultOfCategory(category) ==
    CASE category = "ProjectDir" -> "project"
      [] category = "Requirements" -> "requirements"
      [] category = "LocustDir" -> "locust"
      [] OTHER -> "-"

\* The project directory check cannot pass: one of its fs calls fails, or the
\* directory is missing or empty.
ProjectDirFails(fault) ==
    fault.on = "project" \/ ~uploaded.exists \/ ProjectDir(uploaded).entries = <<>>

\* The requirements.txt check cannot pass.
RequirementsFails(fault) ==
    fault.on = "requirements" \/ uploaded.requirements # "locust"

\* C21: check reports the first failing check in the order project directory,
\* requirements.txt, locust directory, in that check's category; an error that
\* carries an IoError comes from a failed fs call of that same check and a
\* run without a failed fs call never reports one; Ok is returned only when
\* all three checks pass; no process is spawned.
C21_CheckOrder ==
    /\ osChild = "none" /\ status = Created
    /\ \A p \in Phases : processes[p] = PairNew
    /\ \A i \in 1..Len(checkResults) :
         LET r == checkResults[i].result
             f == checkResults[i].fault
         IN  /\ ProjectDirFails(f) => r.res = "ProjectDir"
             /\ ~ProjectDirFails(f) /\ RequirementsFails(f) => r.res = "Requirements"
             /\ ~ProjectDirFails(f) /\ ~RequirementsFails(f) => r.res \in {"LocustDir", "Ok"}
             /\ r.err \in CheckIoErrors => f.on = FaultOfCategory(r.res)
             /\ f = NoFault => r.err \notin CheckIoErrors
             /\ r.res = "Ok" =>
                   /\ r.err = "-"
                   /\ uploaded.locust.exists
                   /\ \E k \in 1..Len(uploaded.locust.entries) : uploaded.locust.entries[k] = "py"

\* C21 witness: requirements.txt without locust in a project that has no
\* locust directory either: the Requirements error is the one reported.
C21_Witness ==
    /\ uploaded = Upload(TRUE, "other", NoDir, FALSE)
    /\ checkResults = <<[result |-> CheckErr("Requirements", "LocustIsNotInRequirementsTxt"),
                         fault |-> NoFault]>>

\* C26: kill-and-wait starts with try_wait; a child found exited is reaped
\* there with no kill issued, the bit left false and its exit status kept, and
\* the Status then written is the child's own termination, never Killed; the
\* kill is reached only from a try_wait that found the child running, the bit
\* is set only when an issued kill has succeeded, and the wait that follows
\* reaps the child.
C26_KillAndWaitSequence ==
    [][/\ proc_pc = "try_wait" /\ osChild = "exited" => proc_pc' # "kill"
       /\ proc_pc = "try_wait" /\ proc_pc' = "set_status" =>
             /\ osChild = "exited" /\ osChild' = "reaped"
             /\ kills' = kills /\ kills = 0
             /\ ~child_killed_successfuly'
             /\ exitStatus' = exitStatus
       /\ proc_pc # "kill" /\ proc_pc' = "kill" => proc_pc = "try_wait" /\ osChild = "alive"
       /\ kills' # kills => proc_pc = "kill" /\ kills' = kills + 1
       /\ child_killed_successfuly' # child_killed_successfuly =>
             /\ proc_pc = "killing" /\ proc_pc' = "wait"
             /\ kills = 1
             /\ child_killed_successfuly'
       /\ proc_pc # "wait" /\ proc_pc' = "wait" => proc_pc = "killing"
       /\ proc_pc = "wait" /\ proc_pc' = "set_status" =>
             osChild' = "reaped" /\ child_killed_successfuly
       /\ proc_pc = "set_status" /\ ~child_killed_successfuly /\ status' # status =>
             status' = Terminated(OwnTermination(exitStatus))
      ]_vars

\* C26 witness: on Windows a cancel found the child already exited with code
\* 1, the exit code of a kill: no kill was issued and the Status is the
\* child's own TerminatedWithErrorCode(1).
C26_Witness ==
    /\ platform = "windows"
    /\ path = "cancel"
    /\ kills = 0
    /\ ~child_killed_successfuly
    /\ osChild = "reaped"
    /\ status = Terminated(TerminatedWithErrorCode(1))
    /\ cancelResults = <<CancelOk("None")>>

\* The first call of run has returned (not been abandoned) after a failure of
\* try_wait, kill or wait on path `branch`: the Status was left Running.
KillAndWaitFailedOn(branch) ==
    /\ path = branch
    /\ proc_pc \in {"idle", "dropped"}
    /\ status = Running
    /\ runResults # <<>>
    /\ runResults[1] # RunAbandoned

\* C27 as stated: after a failed kill-and-wait on the cancel path run has
\* returned Ok(Running) and the error has been sent as the response; on the
\* controller-dropped path run has returned the error.
C27_Original ==
    /\ KillAndWaitFailedOn("cancel") =>
          runResults[1] = RunOk(Running) /\ respMsg \in KillAndWaitErrors
    /\ KillAndWaitFailedOn("drop") => runResults[1].res \in KillAndWaitErrors

\* C27, amended: a failed kill-and-wait leaves the Status Running. On the
\* cancel path the error is sent as the response and run returns Ok(Running),
\* unless the caller of cancel has given up the response Receiver: then the
\* error is lost and run returns Err(ControllerDropped). On the
\* controller-dropped path run returns the error. An Ok(Some(error)) of
\* cancel is the error that was sent, and run never returns an error that
\* was sent.
C27_FailureRouting ==
    /\ KillAndWaitFailedOn("cancel") =>
          \/ /\ runResults[1] = RunOk(Running)
             /\ respMsg \in KillAndWaitErrors
          \/ /\ runResults[1] = RunErr("ControllerDropped")
             /\ respMsg = "empty"
             /\ cancel_status_channel_receiver = "dropped"
             /\ \E i \in 1..Len(cancelResults) : cancelResults[i] = CancelAbandoned
             /\ \A i \in 1..Len(cancelResults) : cancelResults[i].res # "Ok"
    /\ KillAndWaitFailedOn("drop") =>
          /\ runResults[1].res \in KillAndWaitErrors
          /\ controller_dropped
          /\ respMsg = "empty"
    /\ respMsg \in KillAndWaitErrors => path = "cancel" /\ status = Running
    /\ \A i \in 1..Len(cancelResults) :
         cancelResults[i].res = "Ok" /\ cancelResults[i].payload # "None" =>
             /\ cancelResults[i].payload = respMsg
             /\ respMsg \in KillAndWaitErrors
    /\ \A i \in 1..Len(runResults) :
         runResults[i].res \in KillAndWaitErrors =>
             path = "drop" /\ status = Running /\ respMsg = "empty"

\* C27 witness: the kill failed on the cancel path; cancel returned
\* Ok(Some(CouldNotKillProcess)) and run Ok(Running).
C27_Witness ==
    /\ cancelResults = <<CancelOk("CouldNotKillProcess")>>
    /\ runResults = <<RunOk(Running)>>
    /\ status = Running
    /\ kills = 1

\* run returns Err(ControllerDropped) on this step.
ReturnsControllerDropped ==
    /\ Len(runResults') = Len(runResults) + 1
    /\ runResults'[Len(runResults')] = RunErr("ControllerDropped")

\* C28 as stated: whenever run has returned Err(ControllerDropped), the child
\* has been reaped and the Status is Terminated(_).
C28_Original ==
    \A i \in 1..Len(runResults) :
        runResults[i] = RunErr("ControllerDropped") =>
            status.tag = "Terminated" /\ osChild = "reaped"

\* C28, amended: run returns Err(ControllerDropped) only on the cancel path,
\* when the response Receiver is closed at the time of the response. If
\* kill-and-wait succeeded the child has been reaped (killed, or found
\* already exited) and the Status is Terminated(_) before the return; if it
\* failed the Status is still Running, the child has not been reaped by run
\* and the failure is reported nowhere. With the Receiver closed the
\* response step never completes in another way.
C28_ControllerDropped ==
    [][/\ ReturnsControllerDropped =>
             /\ path = "cancel"
             /\ reqMsg = "received"
             /\ cancel_status_channel_receiver = "dropped"
             /\ respMsg' = "empty"
             /\ IF proc_pc = "set_status"
                THEN /\ status'.tag = "Terminated"
                     /\ osChild = "reaped"
                     /\ kills = 0 => ~child_killed_successfuly
                ELSE /\ proc_pc \in {"try_wait", "kill", "killing", "wait"}
                     /\ status' = Running
                     /\ osChild' # "reaped"
       /\ /\ proc_pc = "set_status"
          /\ path = "cancel"
          /\ cancel_status_channel_receiver = "dropped"
          /\ proc_pc' # proc_pc
          => \/ ReturnsControllerDropped
             \/ runResults'[Len(runResults')] = RunAbandoned
      ]_vars

\* C28 witness: the caller of cancel gave up while the Process was killing
\* the child; run returned Err(ControllerDropped) with the child reaped and
\* the Status Terminated(Killed(KilledByCancellationSignal)).
C28_Witness ==
    /\ platform = "linux"
    /\ runResults = <<RunErr("ControllerDropped")>>
    /\ cancelResults = <<CancelAbandoned>>
    /\ status = Terminated(Killed("KilledByCancellationSignal"))
    /\ osChild = "reaped"
    /\ kills = 1

\* C29: a request is sent only through the request Sender while the
\* controller still holds it, into the empty request channel, and the Sender
\* is used up by it; a response is sent only by run through the response
\* Sender it took, into the empty response channel, and uses that Sender up;
\* neither channel is ever emptied or refilled; run issues at most one kill.
C29_OneShot ==
    [][/\ ctl_pc = "send" /\ ctl_pc' = "await" =>
             /\ cancel_channel_sender = "controller"
             /\ cancel_channel_sender' = "sent"
             /\ reqMsg = "empty" /\ reqMsg' = "full"
       /\ reqMsg' # reqMsg =>
             \/ reqMsg = "empty" /\ reqMsg' = "full" /\ ctl_pc = "send"
             \/ reqMsg = "full" /\ reqMsg' = "received"
       /\ cancel_channel_sender # "controller" => cancel_channel_sender' # "controller"
       /\ respMsg' # respMsg =>
             /\ respMsg = "empty"
             /\ cancel_status_channel_sender = "run"
             /\ cancel_status_channel_sender' = "sent"
             /\ reqMsg = "received"
       /\ cancel_status_channel_sender = "sent" => cancel_status_channel_sender' = "sent"
       /\ kills' \in {kills, kills + 1}
       /\ kills' <= 1
      ]_vars

\* C29 witness: after a cancel that was answered and a run that killed the
\* child, a second cancel and a second run have been called and have
\* returned.
C29_Witness ==
    /\ Len(cancelResults) = 2
    /\ Len(runResults) = 2
    /\ cancelResults[1] = CancelOk("None")
    /\ reqMsg = "received"
    /\ respMsg = "None"
    /\ kills = 1

C30_PhasesExclusive ==
    /\ processes["venv"].status.tag \in {"Created", "Running"} =>
          /\ processes["req"].status = Created
          /\ processes["req"].osChild = "none"
          /\ \A i \in 1..Len(processes["req"].results) :
                processes["req"].results[i] = RunErr("AlreayTriedToRun")
    /\ ~(processes["venv"].status = Running /\ processes["req"].status = Running)

\* C30 witness: the requirements Process is Running, its child alive, after
\* the venv Process has terminated successfully.
C30_Witness ==
    /\ processes["venv"].status = Terminated(TerminatedSuccessfully)
    /\ processes["req"].status = Running
    /\ processes["req"].osChild = "alive"
    /\ inst_pc = "req_run"

\* The text of each line of a sequence, terminators apart.
Texts(lines) == [i \in 1..Len(lines) |-> lines[i].n]

\* The positions at which the forwarder task has ended.
ForwarderEnded == {"eof", "error", "closed"}

\* The lines the forwarder has taken from the pipe: those the Receiver has
\* yielded, those in the channel and the one being sent.
Taken == received \o channel \o (IF fwd_pc = "send" THEN <<fwd_line>> ELSE <<>>)

\* The Receiver of the sink has stayed open and has yielded all that was sent.
Drained == relay_pc \in {"recv", "done"} /\ channel = <<>>

\* C22 as stated: once the forwarder has ended and the open Receiver has been
\* drained, the Receiver has yielded exactly the lines the child emitted, in
\* order, and the Sender is closed.
C22_Original ==
    fwd_pc \in ForwarderEnded /\ Drained =>
        /\ Texts(received) = Texts(emitted)
        /\ stdout_sender = "dropped"

\* C22, amended: the sink receives, in emission order and without loss or
\* duplication, the lines the child emitted up to the end of the stream or up
\* to the first read that fails (an I/O error, a line that is not valid
\* UTF-8), whichever comes first; no line from the failed read on is
\* forwarded. With the Receiver open, what the forwarder has taken from the
\* pipe is what the Receiver has yielded or will yield; the Sender is dropped
\* when the forwarder ends, in either way, and is held until then.
C22_ForwardedLines ==
    /\ relay_pc # "broken" => Texts(Taken) = Texts(SubSeq(emitted, 1, lines_read))
    /\ Texts(received) = Texts(SubSeq(emitted, 1, Len(received)))
    /\ \A i \in 1..Len(received) : received[i].utf8 /\ ~received[i].nl
    /\ fwd_pc = "eof" =>
          lines_read = Len(emitted) /\ osChild \in {"exited", "reaped"}
    /\ fwd_pc = "eof" /\ Drained => Texts(received) = Texts(emitted)
    /\ fwd_pc = "error" /\ Drained => Texts(received) = Texts(SubSeq(emitted, 1, lines_read))
    /\ fwd_pc = "closed" => relay_pc = "broken"
    /\ fwd_pc \in ForwarderEnded => stdout_sender = "dropped"
    /\ fwd_pc \in {"next_line", "send"} => stdout_sender = "forwarder"
    /\ relay_pc = "done" => stdout_sender = "dropped"

\* C22 witness: the child wrote MaxLines lines and ended; the forwarder read
\* to the end of the stream and the Receiver, having yielded them all in
\* order, found the channel closed.
C22_Witness ==
    /\ Len(emitted) = MaxLines
    /\ fwd_pc = "eof"
    /\ relay_pc = "done"
    /\ Texts(received) = Texts(emitted)
    /\ stdout_sender = "dropped"

\* C23 as stated: whenever the Receiver of a sink has yielded a line, the
\* Status is no longer Created.
C23_Original == received # <<>> => status # Created

\* The lines that write_all has accepted and that were, or are being, sent on.
Accepted == relayed \o (IF relay_pc = "forward" THEN <<relay_line>> ELSE <<>>)

\* All of a sequence but its last element.
Front(seq) == SubSeq(seq, 1, Len(seq) - 1)

\* The relay sink was supplied and has stayed open.
RelaySinkOpen == sender_to_forward_to # "none" /\ relay_receiver = "open"

\* C24 as stated: with the relay sink supplied and open, between two lines
\* and at the end of the relay task the sink has received the lines that are
\* in the file, in the same order.
C24_Original ==
    RelaySinkOpen /\ relay_pc \in {"recv", "done", "broken"} => relayed = stdout_file

\* C24, amended: with the relay sink supplied and open, the sink receives, in
\* the order of the stream and each with its newline, every line that
\* write_all accepted: all the lines that are in the file, and the line
\* whose write failed, if one did. That failure is returned only by the next
\* write, which ends the task, so at most the last line the sink received is
\* missing from the file; while no write has failed the two sequences are
\* equal.
C24_RelayedLines ==
    RelaySinkOpen =>
        /\ Texts(Accepted) = Texts(SubSeq(received, 1, Len(Accepted)))
        /\ \A i \in 1..Len(relayed) : relayed[i].nl
        /\ \/ stdout_file = Accepted
           \/ /\ Accepted # <<>>
              /\ stdout_file = Front(Accepted)
              /\ last_write_err \/ relay_pc = "broken"
        /\ ~last_write_err /\ relay_pc # "broken" => stdout_file = Accepted
        /\ relay_pc \in {"recv", "done"} /\ ~last_write_err => relayed = stdout_file

\* C24 witness: MaxLines lines went through the relay task to the end of the
\* stream; the file and the open relay sink hold the same lines.
C24_Witness ==
    /\ RelaySinkOpen
    /\ relay_pc = "done"
    /\ Len(stdout_file) = MaxLines
    /\ relayed = stdout_file
    /\ Texts(relayed) = Texts(emitted)

----------------------------------------------------------------------------
(* Claims C31..C39                                                          *)

\* C31 as stated: when LocalProjectInstallerController::cancel was called
\* between the phases (it found the venv Process
\* Terminated(TerminatedSuccessfully) and the requirements Process still
\* Created), the requirements phase does not run to its successful end and
\* install does not return Ok.
C31_Original ==
    ~ /\ \E i \in 1..Len(icancelResults) :
           icancelResults[i] =
               InstallerCancelResult("ReqCancellationError", "req", "-", "ProcessNotRunning")
      /\ processes["venv"].status = Terminated(TerminatedSuccessfully)
      /\ processes["req"].status = Terminated(TerminatedSuccessfully)
      /\ \E j \in 1..Len(installResults) : installResults[j].res = "Ok"

\* C33 as stated, for the forward: a relay task whose send to the relay sink
\* fails (the sink is closed) breaks out of its receive loop, so the step
\* that leaves the forward with the sink closed ends the task.
C33_Original ==
    [][(relay_pc = "forward" /\ relay_receiver = "closed" /\ relay_pc' # relay_pc)
          => relay_pc' \in {"done", "broken"}]_vars

\* C37 as stated: when the run of a phase has returned, and install after it,
\* every line its child emitted is in the file of the stream (taken here in
\* its plainest case: the child ended by itself and the run returned Ok).
C37_Original ==
    (runResults # <<>> /\ runResults[1].res = "Ok")
        => Texts(stdout_file) = Texts(emitted)

\* C37, amended: at every moment, the return of run and of install included,
\* the file of a stream holds a prefix of the lines the child emitted on it,
\* in order and each followed by a newline, and nothing the relay task has
\* not yet received; the forwarder and the relay task are not awaited by the
\* return, so the rest of the output is written later or never.
C37_FilePrefix ==
    /\ Len(stdout_file) <= Len(received)
    /\ Len(stdout_file) <= Len(emitted)
    /\ stdout_file = SubSeq(emitted, 1, Len(stdout_file))

\* C37 witness: run has returned Ok after the child emitted MaxLines lines
\* while the file holds some of them, and not yet all.
C37_Witness ==
    /\ runResults # <<>>
    /\ runResults[1].res = "Ok"
    /\ Len(emitted) = MaxLines
    /\ Len(stdout_file) \in 1..(MaxLines - 1)
    /\ relay_pc \in {"recv", "write", "forward"}

\* A cancel has just returned the error of its status pre-check.
PrecheckFailed ==
    /\ Len(cancelResults') = Len(cancelResults) + 1
    /\ ~ cancelResults'[Len(cancelResults')].pre

\* C35: a cancel that fails its status pre-check changes nothing: the request
\* sender and the response receiver stay with the controller, nothing is put
\* into either channel and the Status is what it was; while every cancel so
\* far was rejected by the pre-check and the controller is alive, both ends
\* are still the controller's, so a later cancel can send.
C35_FailedPrecheckFrame ==
    /\ [][PrecheckFailed =>
            /\ cancelResults'[Len(cancelResults')].res \in
                   {"ProcessNotRunning", "ProcessTerminated"}
            /\ UNCHANGED <<ctlChans, reqMsg, respMsg, status, procChans, osVars>>]_vars
    /\ []((/\ ctl_pc = "idle"
           /\ \A i \in 1..Len(cancelResults) : ~ cancelResults[i].pre)
             => /\ cancel_channel_sender = "controller"
                /\ cancel_status_channel_receiver = "controller")

\* C35 witness: the first cancel was rejected with ProcessNotRunning while
\* Created, the second, on the Running Process, returned Ok(None).
C35_Witness ==
    cancelResults = <<CancelErr("ProcessNotRunning", FALSE), CancelOk("None")>>

\* What a call of install returns when venv_process.run finds its channel
\* ends taken: the phase error, and the clean-up was run.
FailedAsAlreadyRun(result) ==
    /\ result.res \in {"ErrorThatTriggersCleanUp", "CleanUpError"}
    /\ result.error = TriggersCleanUp("VenvInstallError", "RunError", RunErr("AlreayTriedToRun"))
    /\ result.cleaned

\* C34 as stated: every call of check_and_install after the first fails with
\* VenvInstallError(RunError(AlreayTriedToRun)) and runs the clean-up.
C34_Original ==
    \A i \in 2..Len(installResults) : FailedAsAlreadyRun(installResults[i])

\* C34, amended: a call of check_and_install that comes after a call that
\* reached venv_process.run, and that itself passes check, the path
\* conversions and the creation of the four files, spawns no child, does not
\* run the requirements phase, fails with
\* VenvInstallError(RunError(AlreayTriedToRun)) and runs the clean-up of
\* project_env_dir; a later call that does not get that far returns its
\* CheckError or start error without clean-up, and a call after calls that
\* all returned before the venv run finds the installer unused.
C34_NotReRunnable ==
    /\ [](\A i \in 2..Len(installResults) :
            IF installResults[i].res \in StartFailures
            THEN ~ installResults[i].cleaned /\ installResults[i].error = NoError
            ELSE (\E k \in 1..(i - 1) : k \in RunCalls)
                     => FailedAsAlreadyRun(installResults[i]))
    /\ [](/\ Len(processes["req"].results) <= 1
          /\ \A k \in 2..Len(processes["venv"].results) :
                processes["venv"].results[k] = RunErr("AlreayTriedToRun"))
    /\ [][RunCalls # {} =>
            /\ \A p \in Phases :
                 processes'[p].osChild = "alive" => processes[p].osChild = "alive"
            /\ processes'["req"].results = processes["req"].results]_vars

\* C34 witness: the first call installed the project, the second failed with
\* AlreayTriedToRun and its clean-up removed the environment.
C34_Witness ==
    /\ Len(installResults) = 2
    /\ installResults[1].res = "Ok"
    /\ installResults[2].res = "ErrorThatTriggersCleanUp"
    /\ FailedAsAlreadyRun(installResults[2])
    /\ ~ installResults[2].env
    /\ Len(processes["venv"].results) = 2

\* The LocalProjectInstallerController was dropped and cancel never called.
InstallerDroppedWithoutCancel == ictl_pc = "dropped" /\ icancelResults = <<>>

\* The run of pair p writes its Terminated status in this step.
PhaseTerminates(p) ==
    /\ processes[p].status.tag # "Terminated"
    /\ processes'[p].status.tag = "Terminated"

\* What install returns for a venv run killed by the drop of the controller.
VenvKilledByDrop ==
    TriggersCleanUp("VenvInstallError", "Killed",
                    RunOk(Terminated(Killed("KilledByDroppingController"))))

\* C36 as stated: with the controller dropped without cancel, a venv phase
\* that terminates was killed by the drop, and no check_and_install returns
\* Ok(()) while the controller is dropped.
C36_Original ==
    [][/\ (InstallerDroppedWithoutCancel /\ PhaseTerminates("venv"))
            => processes'["venv"].status = Terminated(Killed("KilledByDroppingController"))
       /\ (Len(installResults') > Len(installResults) /\ ictl_pc = "dropped")
            => installResults'[Len(installResults')].res # "Ok"]_vars

\* C36, amended: with the controller dropped without cancel, a phase that
\* terminates is Killed(KilledByDroppingController) exactly when its run took
\* the closed-channel branch of the select, its kill succeeded and the exit
\* status shows the kill signature of Linux or Windows; otherwise its status
\* is the classification of the child's own exit status (the child had ended
\* by itself, or the target is neither Linux nor Windows). A venv phase
\* killed by the drop makes the call return
\* VenvInstallError(Killed(KilledByDroppingController)) after the clean-up,
\* the requirements phase not being started; and a call returns Ok(()) with
\* the controller dropped only if both children ended by themselves with
\* exit code 0.
C36_DroppedInstallerController ==
    /\ [][\A p \in Phases :
            (InstallerDroppedWithoutCancel /\ PhaseTerminates(p)) =>
                LET r == processes'[p] IN
                IF r.controller_dropped /\ r.child_killed_successfuly /\ PairKillSignature(p)
                THEN r.status = Terminated(Killed("KilledByDroppingController"))
                ELSE r.status = Terminated(OwnTermination(r.exitStatus))]_vars
    /\ []((/\ InstallerDroppedWithoutCancel
           /\ RunCalls # {}
           /\ processes["venv"].status = Terminated(Killed("KilledByDroppingController")))
             => /\ installResults[FirstRunCall].error = VenvKilledByDrop
                /\ installResults[FirstRunCall].cleaned
                /\ processes["req"].status = Created
                /\ processes["req"].osChild = "none")
    /\ []((/\ InstallerDroppedWithoutCancel
           /\ \E i \in 1..Len(installResults) : installResults[i].res = "Ok")
             => \A p \in Phases :
                  /\ processes[p].status = Terminated(TerminatedSuccessfully)
                  /\ ExitSuccess(processes[p].exitStatus))

\* C36 witness: the controller was dropped without cancel, the venv child was
\* killed, and the call returned VenvInstallError(Killed(KilledByDroppingController))
\* after a clean-up that removed project_env_dir.
C36_Witness ==
    /\ InstallerDroppedWithoutCancel
    /\ Len(installResults) = 1
    /\ installResults[1].res = "ErrorThatTriggersCleanUp"
    /\ installResults[1].error = VenvKilledByDrop
    /\ installResults[1].cleaned
    /\ processes["venv"].kills = 1
    /\ processes["venv"].osChild = "reaped"

\* The forwarder is blocked in its send: the sink is full and its Receiver,
\* still open, is not read.
ForwarderBlocked ==
    /\ fwd_pc = "send"
    /\ Len(channel) = ChannelCapacity
    /\ stdout_receiver = "open"

\* The call of run has returned.
RunReturned == proc_pc = "idle" /\ runResults # <<>>

\* C39: once the cancel request is in the channel of a Running Process, run
\* returns and cancel returns, whatever the forwarder does, also when it is
\* blocked for ever on a full sink that nobody reads (a kill or a wait that
\* fails makes them return as well); when kill and wait did not fail, cancel
\* has returned Ok(None) and the child is reaped.
C39_CancelCompletes ==
    /\ (reqMsg = "full") ~> RunReturned
    /\ (ctl_pc = "await") ~> (ctl_pc = "idle" /\ cancelResults # <<>>)
    /\ (ForwarderBlocked /\ reqMsg = "received") ~> RunReturned
    /\ []((cancelResults # <<>> /\ cancelResults[Len(cancelResults)] = CancelOk("None"))
            => status.tag = "Terminated" /\ osChild = "reaped")

\* C39 witness: the forwarder is blocked on the full sink, the cancel has
\* returned Ok(None) and run has returned the Killed status.
C39_Witness ==
    /\ ForwarderBlocked
    /\ cancelResults = <<CancelOk("None")>>
    /\ runResults = <<RunOk(Terminated(Killed("KilledByCancellationSignal")))>>
    /\ kills = 1

\* C32: remove_dir_all_with_max_attempts_and_delay makes at most max_attempts
\* removal attempts and returns; it returns Ok(errors) at the first attempt
\* that succeeds, errors being the failures of the attempts before it, in
\* order; it returns MaxAttemptsExceeded(errors) exactly when every attempt
\* failed, after max_attempts attempts, with their max_attempts errors in
\* order (none, without any attempt, for max_attempts = 0).
C32_BoundedRemoval ==
    /\ [](Len(removals) <= max_attempts)
    /\ <>(rm_pc = "returned")
    /\ [](rm_pc # "returned" => \A k \in 1..Len(removals) : removals[k] # "Ok")
    /\ [](rm_pc = "returned" =>
            IF \E k \in 1..Len(removals) : removals[k] = "Ok"
            THEN /\ rm_result.res = "Ok"
                 /\ removals = Append(rm_result.errors, "Ok")
            ELSE /\ rm_result.res = "MaxAttemptsExceeded"
                 /\ rm_result.errors = removals
                 /\ Len(rm_result.errors) = max_attempts)

\* C32 witness: every one of MaxBudget attempts failed and the function
\* returned MaxAttemptsExceeded with the MaxBudget errors.
C32_Witness ==
    /\ rm_pc = "returned"
    /\ max_attempts = MaxBudget
    /\ rm_result.res = "MaxAttemptsExceeded"
    /\ Len(rm_result.errors) = MaxBudget
    /\ removals = rm_result.errors

\* The positions of the lines of phase p in the caller's sink, and the k-th
\* of them.
SinkPositions(p) == {i \in 1..Len(relay_sink) : relay_sink[i].phase = p}
Delivered(p) == Cardinality(SinkPositions(p))

\* C38 as stated: on the caller's stdout sink, no line of the requirements
\* phase comes before a line of the venv phase.
C38_Original ==
    \A i, j \in 1..Len(relay_sink) :
        (relay_sink[i].phase = "req" /\ relay_sink[j].phase = "venv") => j < i

\* C38, amended: on the caller's stdout sink the lines of each phase come in
\* the order in which the phase's child wrote them, without a gap or a
\* repetition, and no line of the requirements phase comes before the venv
\* run has returned; the venv relay task is not awaited, so lines of the
\* venv phase may still come after lines of the requirements phase.
C38_PerPhaseOrder ==
    /\ \A p \in Phases :
         /\ Delivered(p) <= produced[p]
         /\ \A i \in SinkPositions(p) :
              relay_sink[i].n = Cardinality({k \in SinkPositions(p) : k <= i})
    /\ phase_at = "venv" => SinkPositions("req") = {}

\* C38 witness: the sink has received the MaxLines lines of each phase, and
\* a line of the venv phase after a line of the requirements phase.
C38_Witness ==
    /\ Len(relay_sink) = 2 * MaxLines
    /\ Delivered("venv") = MaxLines
    /\ \E i, j \in 1..Len(relay_sink) :
         i < j /\ relay_sink[i].phase = "req" /\ relay_sink[j].phase = "venv"

====
